---- MODULE Spec2Model ----
(***************************************************************************)
(* Smart B-Roll Inserter: the allocation engine (allocateBrolls and        *)
(* canAllocate), the LLM matcher (matchAndAllocate), the timeline          *)
(* assembler (buildTimelineJson, saveTimeline), the matching pipeline      *)
(* (runMatchingPipeline), the compositor (renderVideo) and the render      *)
(* request handler with its cleanup timeout (POST /api/pipeline/render).   *)
(*                                                                         *)
(* Numbers: seconds are integers; similarities and confidences are         *)
(* hundredths (0.45 is 45), so every comparison of the source keeps its    *)
(* outcome.                                                                *)
(***************************************************************************)
EXTENDS Integers, Sequences, FiniteSets, TLC

VARIABLES
    env,              \* process.env, read once when the modules load
    sortedMatches,    \* the argument of allocateBrolls
    apc,              \* per call of allocateBrolls: "idle", "loop", "done"
    idx,              \* per call: how many matches the for-of loop has consumed
    usedBrolls,       \* per call: const usedBrolls = new Set()
    arollInsertions,  \* per call: const arollInsertions = new Map()
    allocations,      \* per call: const allocations = []
    allocResult,      \* per call: the returned {allocations, stats}
    arollDb,          \* what ARoll.find({processed: true}) returns, in order
    brollDb,          \* what BRoll.find({}) returns, in order
    timelineStore,    \* the Timeline collection: aroll_id -> stored timeline
    ppc,              \* runMatchingPipeline: "idle", "loop", "done", "failed"
    pIdx,             \* how many A-rolls its for-of loop has processed
    allAllocations,   \* const allAllocations = []
    timelines,        \* const timelines = []
    pipelineError,    \* the Error it threw, or NoError
    llmOutcomes,      \* per iteration: how the chat completion ended ("throws", "unparsable", "json")
    disk,             \* the absolute paths that exist on disk
    renderArgs,       \* per call of renderVideo: its arguments timeline, brollMap, aroll
    rpc,              \* per call: "idle", "encoding", "completed", "failed"
    outputPath,       \* per call: const outputPath
    commandInputs,    \* per call: the inputs added to the ffmpeg command, in order
    validInsertions,  \* per call: const validInsertions = []
    complexFilter,    \* per call: const complexFilter = [], one record per filter node
    outputMaps,       \* per call: the streams the -map options select
    processRuns,      \* per call: how many times the command's run() was called
    started,          \* per call: whether the "start" event was handled
    progressLog,      \* per call: the percents written by the "progress" handler
    renderOutcome,    \* per call: how the returned promise settled, or Pending
    spc,              \* per call of saveTimeline: "idle", "finding", "writing", "done", "failed"
    saveArg,          \* per call: its argument timeline
    saveExisting,     \* per call: whether its findOne returned a document
    saveResult,       \* per call: what the call returned or threw, or Pending
    reqBody,          \* per POST /render request: req.body
    hpc,              \* per request: where its handler stands
    hTimeline,        \* per request: const timeline
    hAroll,           \* per request: const aroll
    response,         \* per request: the response sent, or Pending
    timer,            \* per request: the timeout set by its handler
    unlinkCalls,      \* per request: how often its timeout callback called fs.unlinkSync
    cleanupLog,       \* per request: what its timeout callback logged
    buildArgs,        \* the arguments of a direct call of buildTimelineJson
    buildResult,      \* what that call returned, or NoTimeline
    matchArgs,        \* the arguments of a direct call of matchAndAllocate, with the chat completion it gets
    matchResult       \* what that call returned, or NoMatchResult

allocVars == <<sortedMatches, apc, idx, usedBrolls, arollInsertions, allocations, allocResult>>

pipeVars == <<arollDb, brollDb, timelineStore, ppc, pIdx, allAllocations, timelines, pipelineError,
             llmOutcomes>>

renderVars == <<disk, renderArgs, rpc, outputPath, commandInputs, validInsertions, complexFilter,
                outputMaps, processRuns, started, progressLog, renderOutcome>>

saveVars == <<spc, saveArg, saveExisting, saveResult>>

serveVars == <<reqBody, hpc, hTimeline, hAroll, response, timer, unlinkCalls, cleanupLog>>

buildVars == <<buildArgs, buildResult>>

matchVars == <<matchArgs, matchResult>>

vars == <<env, allocVars, pipeVars, renderVars, saveVars, serveVars, buildVars, matchVars>>

(***************************************************************************)
(* Bounds of the model.                                                    *)
(***************************************************************************)
MaxMatches == 3
MaxReentMatches == 2
MaxSuggestions == 2
MaxInsertions == 2
MaxProgressEvents == 2

(***************************************************************************)
(* Small helpers.                                                          *)
(***************************************************************************)
Abs(x) == IF x < 0 THEN -x ELSE x

SeqsUpTo(S, n) == UNION {[1..k -> S] : k \in 0..n}

Range(s) == {s[i] : i \in 1..Len(s)}

\* JS Map: get(k) || []
MapGetOrEmpty(m, k) == IF k \in DOMAIN m THEN m[k] ELSE <<>>

\* JS Map: set(k, v)
MapSet(m, k, v) == [x \in DOMAIN m \cup {k} |-> IF x = k THEN v ELSE m[x]]

EmptyMap == [x \in {} |-> <<>>]

(***************************************************************************)
(* Configuration: parseInt(process.env.X) || default, parseFloat(...) ||   *)
(* default.  An unset variable parses to NaN and a parsed 0 is falsy, so   *)
(* both fall back to the default.                                          *)
(***************************************************************************)
Unset == "unset"

IntOf == [s \in {"0", "1", "2", "5"} |-> CASE s = "0" -> 0 [] s = "1" -> 1 [] s = "2" -> 2 [] s = "5" -> 5]

HundredthsOf == [s \in {"0", "0.45", "0.85"} |-> CASE s = "0" -> 0 [] s = "0.45" -> 45 [] s = "0.85" -> 85]

ParseIntOr(s, d) == IF s \in DOMAIN IntOf /\ IntOf[s] # 0 THEN IntOf[s] ELSE d

ParseHundredthsOr(s, d) == IF s \in DOMAIN HundredthsOf /\ HundredthsOf[s] # 0 THEN HundredthsOf[s] ELSE d

DEFAULT_MAX_INSERTIONS == 5
DEFAULT_MIN_GAP == 4
DEFAULT_MIN_CONFIDENCE == 45

MAX_INSERTIONS_PER_AROLL == ParseIntOr(env.MAX_INSERTIONS_PER_AROLL, DEFAULT_MAX_INSERTIONS)

MIN_GAP_SECONDS == ParseIntOr(env.MIN_GAP_SECONDS, DEFAULT_MIN_GAP)

MIN_CONFIDENCE == ParseHundredthsOr(env.SIMILARITY_THRESHOLD, DEFAULT_MIN_CONFIDENCE)

\* timeline_builder.js: parseFloat(process.env.BROLL_DURATION_SEC) || 5.0
DEFAULT_DURATION_FALLBACK == 5

DEFAULT_BROLL_DURATION == ParseIntOr(env.BROLL_DURATION_SEC, DEFAULT_DURATION_FALLBACK)

DefaultEnv ==
    [MAX_INSERTIONS_PER_AROLL |-> Unset, MIN_GAP_SECONDS |-> Unset,
     SIMILARITY_THRESHOLD |-> Unset, BROLL_DURATION_SEC |-> Unset]

Envs ==
    { DefaultEnv,
      [DefaultEnv EXCEPT !.MAX_INSERTIONS_PER_AROLL = "1", !.MIN_GAP_SECONDS = "0"],
      [MAX_INSERTIONS_PER_AROLL |-> "2", MIN_GAP_SECONDS |-> "1",
       SIMILARITY_THRESHOLD |-> "0.85", BROLL_DURATION_SEC |-> "2"] }

(***************************************************************************)
(* Candidate matches.  segment_text and the descriptions are carried       *)
(* through unread and are left out.                                        *)
(***************************************************************************)
Arolls == {"a1", "a2"}
Brolls == {"b1", "b2", "b3"}

SegmentIdAt(start) == CASE start = 2 -> "seg_01" [] start = 3 -> "seg_02" [] start = 10 -> "seg_03"

Match(a, b, start, sim) ==
    [aroll_id |-> a, segment_id |-> SegmentIdAt(start), segment_start |-> start,
     broll_id |-> b, similarity |-> sim]

\* Scenario A of the specification, on one A-roll.
ScenarioA == << Match("a1", "b1", 2, 90), Match("a1", "b2", 3, 80), Match("a1", "b1", 10, 95) >>

MatchPool ==
    { Match("a1", b, s, 90) : b \in Brolls, s \in {2, 3, 10} }
        \cup { Match("a2", b, s, 90) : b \in {"b1", "b2"}, s \in {2, 3} }
        \cup Range(ScenarioA)
        \cup { Match("a1", "b3", 10, 40) }

(***************************************************************************)
(* sortMatchesBySimilarity: [...matches].sort((a, b) => b.similarity -     *)
(* a.similarity), a stable sort, descending.                               *)
(***************************************************************************)
RECURSIVE InsertDesc(_, _)
InsertDesc(sorted, m) ==
    IF sorted = <<>> THEN <<m>>
    ELSE IF Head(sorted).similarity >= m.similarity
         THEN <<Head(sorted)>> \o InsertDesc(Tail(sorted), m)
         ELSE <<m>> \o sorted

RECURSIVE sortMatchesBySimilarity(_)
sortMatchesBySimilarity(matches) ==
    IF matches = <<>> THEN <<>>
    ELSE InsertDesc(sortMatchesBySimilarity(SubSeq(matches, 1, Len(matches) - 1)),
                    matches[Len(matches)])

(***************************************************************************)
(* canAllocate                                                             *)
(***************************************************************************)
\* Constraint 1: B-roll not already used
BrollUnused(match, used) == match.broll_id \notin used

ConfidenceOkPositive(match) == match.similarity > 0

\* Constraint 2: minimum confidence threshold
ConfidenceOk(match) == ~(match.similarity < MIN_CONFIDENCE)

UnderCapOffByOne(match, ai) == ~(Len(MapGetOrEmpty(ai, match.aroll_id)) > MAX_INSERTIONS_PER_AROLL)

UnderCapOneShort(match, ai) == ~(Len(MapGetOrEmpty(ai, match.aroll_id)) + 1 >= MAX_INSERTIONS_PER_AROLL)

\* Constraint 3: max insertions per A-roll
UnderCap(match, ai) == ~(Len(MapGetOrEmpty(ai, match.aroll_id)) >= MAX_INSERTIONS_PER_AROLL)

GapOkLastOnly(match, ai) ==
    LET arollAllocs == MapGetOrEmpty(ai, match.aroll_id)
    IN arollAllocs # <<>> =>
          ~(Abs(match.segment_start - arollAllocs[Len(arollAllocs)].start_sec) < MIN_GAP_SECONDS)

GapOkExclusive(match, ai) ==
    \A existing \in Range(MapGetOrEmpty(ai, match.aroll_id)) :
        ~(Abs(match.segment_start - existing.start_sec) <= MIN_GAP_SECONDS)

\* Constraint 4: minimum time gap within the same A-roll
GapOk(match, ai) ==
    \A existing \in Range(MapGetOrEmpty(ai, match.aroll_id)) :
        ~(Abs(match.segment_start - existing.start_sec) < MIN_GAP_SECONDS)

canAllocateReusing(match, used, ai) ==
    /\ ConfidenceOk(match)
    /\ UnderCap(match, ai)
    /\ GapOk(match, ai)

canAllocateNoGap(match, used, ai) ==
    /\ BrollUnused(match, used)
    /\ ConfidenceOk(match)
    /\ UnderCap(match, ai)

canAllocate(match, used, ai) ==
    /\ BrollUnused(match, used)
    /\ ConfidenceOk(match)
    /\ UnderCap(match, ai)
    /\ GapOk(match, ai)

(***************************************************************************)
(* allocateBrolls, one action per entry, loop iteration and return.        *)
(***************************************************************************)
Calls == {1, 2}

Allocation(match) ==
    [aroll_id |-> match.aroll_id, segment_id |-> match.segment_id,
     start_sec |-> match.segment_start, broll_id |-> match.broll_id,
     confidence |-> match.similarity]

UsedSeenShared(c) == UNION {usedBrolls[d] : d \in Calls}

\* The used set the call hands to canAllocate: its own.
UsedSeenBy(c) == usedBrolls[c]

\* The per-A-roll lists the call hands to canAllocate: its own.
InsertionsSeenBy(c) == arollInsertions[c]

AllocEntry(c) ==
    /\ apc[c] = "idle"
    /\ apc' = [apc EXCEPT ![c] = "loop"]
    /\ idx' = [idx EXCEPT ![c] = 0]
    /\ usedBrolls' = [usedBrolls EXCEPT ![c] = {}]
    /\ arollInsertions' = [arollInsertions EXCEPT ![c] = EmptyMap]
    /\ allocations' = [allocations EXCEPT ![c] = <<>>]
    /\ UNCHANGED <<env, buildVars, matchVars, pipeVars, renderVars, saveVars, serveVars, sortedMatches, allocResult>>

AllocRejectBurning(c) ==
    /\ apc[c] = "loop"
    /\ idx[c] < Len(sortedMatches)
    /\ ~canAllocate(sortedMatches[idx[c] + 1], UsedSeenBy(c), InsertionsSeenBy(c))
    /\ idx' = [idx EXCEPT ![c] = @ + 1]
    /\ usedBrolls' = [usedBrolls EXCEPT ![c] = @ \cup {sortedMatches[idx[c] + 1].broll_id}]
    /\ UNCHANGED <<env, buildVars, matchVars, pipeVars, renderVars, saveVars, serveVars, sortedMatches, apc, arollInsertions, allocations, allocResult>>

AllocReject(c) ==
    /\ apc[c] = "loop"
    /\ idx[c] < Len(sortedMatches)
    /\ ~canAllocate(sortedMatches[idx[c] + 1], UsedSeenBy(c), InsertionsSeenBy(c))
    /\ idx' = [idx EXCEPT ![c] = @ + 1]
    /\ UNCHANGED <<env, buildVars, matchVars, pipeVars, renderVars, saveVars, serveVars, sortedMatches, apc, usedBrolls, arollInsertions, allocations, allocResult>>

AllocAccept(c) ==
    /\ apc[c] = "loop"
    /\ idx[c] < Len(sortedMatches)
    /\ LET match == sortedMatches[idx[c] + 1]
           allocation == Allocation(match)
       IN /\ canAllocate(match, UsedSeenBy(c), InsertionsSeenBy(c))
          /\ allocations' = [allocations EXCEPT ![c] = Append(@, allocation)]
          /\ usedBrolls' = [usedBrolls EXCEPT ![c] = @ \cup {match.broll_id}]
          /\ arollInsertions' =
                [arollInsertions EXCEPT ![c] =
                    MapSet(@, match.aroll_id, Append(MapGetOrEmpty(@, match.aroll_id), allocation))]
    /\ idx' = [idx EXCEPT ![c] = @ + 1]
    /\ UNCHANGED <<env, buildVars, matchVars, pipeVars, renderVars, saveVars, serveVars, sortedMatches, apc, allocResult>>

AllocReturn(c) ==
    /\ apc[c] = "loop"
    /\ idx[c] = Len(sortedMatches)
    /\ apc' = [apc EXCEPT ![c] = "done"]
    /\ allocResult' =
          [allocResult EXCEPT ![c] =
              [allocations |-> allocations[c],
               stats |-> [totalAllocations |-> Len(allocations[c]),
                          brollsUsed |-> Cardinality(usedBrolls[c]),
                          arollsCovered |-> Cardinality(DOMAIN arollInsertions[c])]]]
    /\ UNCHANGED <<env, buildVars, matchVars, pipeVars, renderVars, saveVars, serveVars, sortedMatches, idx, usedBrolls, arollInsertions, allocations>>

NoResult == [allocations |-> <<>>, stats |-> [totalAllocations |-> 0, brollsUsed |-> 0, arollsCovered |-> 0]]

AllocIdle ==
    /\ apc = [c \in Calls |-> "idle"]
    /\ idx = [c \in Calls |-> 0]
    /\ usedBrolls = [c \in Calls |-> {}]
    /\ arollInsertions = [c \in Calls |-> EmptyMap]
    /\ allocations = [c \in Calls |-> <<>>]
    /\ allocResult = [c \in Calls |-> NoResult]

(***************************************************************************)
(* The stored documents the matching pipeline reads.                       *)
(***************************************************************************)
Segment(id, start, end) == [segment_id |-> id, start_sec |-> start, end_sec |-> end, eligible |-> TRUE]

ArollDocs ==
    [a \in Arolls |->
        IF a = "a1"
        THEN [aroll_id |-> "a1", file_path |-> "uploads/aroll/a1.mp4", duration_sec |-> 14,
              segments |-> <<Segment("seg_01", 2, 3), Segment("seg_02", 3, 10), Segment("seg_03", 10, 14)>>]
        ELSE [aroll_id |-> "a2", file_path |-> "uploads/aroll/a2.mp4", duration_sec |-> 9,
              segments |-> <<Segment("seg_01", 1, 5), Segment("seg_02", 5, 9)>>]]

BrollDoc(b, dur, desc) ==
    [broll_id |-> b, file_path |-> "uploads/broll/" \o b \o ".mp4", duration_sec |-> dur, description |-> desc]

BrollDocs == <<BrollDoc("b1", 3, "hands typing on keyboard"), BrollDoc("b2", 6, "sunset over the sea"),
               BrollDoc("b3", 2, "a person cooking")>>

\* new Map(brolls.map(b => [b.broll_id, b])): a later entry replaces an earlier one
BrollMapOf(brolls) ==
    [b \in {brolls[i].broll_id : i \in 1..Len(brolls)} |->
        brolls[CHOOSE i \in 1..Len(brolls) :
                  /\ brolls[i].broll_id = b
                  /\ \A j \in 1..Len(brolls) : brolls[j].broll_id = b => j <= i]]

(***************************************************************************)
(* matchAndAllocate.  The LLM is external: its completion either throws,   *)
(* is no JSON, or is a JSON object with or without an allocations list.    *)
(* A suggestion may lack the confidence and reason properties.             *)
(***************************************************************************)
LongReason == "Speaker mentions coding"

Suggestion(seg, b, conf, reason) == [segment_id |-> seg, broll_id |-> b, confidence |-> conf, reason |-> reason]

SuggestionPool ==
    { Suggestion(seg, b, conf, LongReason) : seg \in {"seg_01", "seg_02"}, b \in {"b1", "b2"}, conf \in {30, 90} }
        \cup { Suggestion("seg_01", "b1", 90, "too short"),
               Suggestion("seg_99", "b1", 90, LongReason),
               Suggestion("seg_01", "b9", 90, LongReason),
               Suggestion("seg_01", "b2", 150, LongReason),
               [segment_id |-> "seg_02", broll_id |-> "b2"] }

Completions ==
    { [kind |-> "throws"], [kind |-> "unparsable"], [kind |-> "json"] }
        \cup { [kind |-> "json", allocations |-> raw] : raw \in SeqsUpTo(SuggestionPool, MaxSuggestions) }

Null == [null |-> TRUE]

Min(a, b) == IF a < b THEN a ELSE b
Max(a, b) == IF a > b THEN a ELSE b

\* Array.prototype.find
FindBy(seq, field, value) ==
    IF \E i \in 1..Len(seq) : seq[i][field] = value
    THEN seq[CHOOSE i \in 1..Len(seq) :
                /\ seq[i][field] = value
                /\ \A j \in 1..Len(seq) : seq[j][field] = value => i <= j]
    ELSE Null

\* typeof alloc.confidence === 'number' ? Math.min(1, Math.max(0, alloc.confidence)) : 0.5
ConfidenceOf(alloc) ==
    IF "confidence" \in DOMAIN alloc THEN Min(100, Max(0, alloc.confidence)) ELSE 50

\* alloc.reason || "No reason provided"
ReasonOf(alloc) ==
    IF "reason" \in DOMAIN alloc /\ alloc.reason # "" THEN alloc.reason ELSE "No reason provided"

\* The .map callback over rawAllocations, with its side effect on usedBrolls:
\* the mapped list, a Null for every skipped suggestion.
RECURSIVE TransformSuggestions(_, _, _, _, _)
TransformSuggestions(raw, used, segments, brolls, arollId) ==
    IF raw = <<>> THEN <<>>
    ELSE LET alloc == Head(raw)
             segment == FindBy(segments, "segment_id", alloc.segment_id)
             broll == FindBy(brolls, "broll_id", alloc.broll_id)
         IN IF segment = Null \/ broll = Null
            THEN <<Null>> \o TransformSuggestions(Tail(raw), used, segments, brolls, arollId)
            ELSE IF alloc.broll_id \in used
            THEN <<Null>> \o TransformSuggestions(Tail(raw), used, segments, brolls, arollId)
            ELSE <<[aroll_id |-> arollId, segment_id |-> alloc.segment_id,
                    broll_id |-> alloc.broll_id, start_sec |-> segment.start_sec,
                    end_sec |-> segment.end_sec, confidence |-> ConfidenceOf(alloc),
                    reason |-> ReasonOf(alloc)]>>
                 \o TransformSuggestions(Tail(raw), used \cup {alloc.broll_id}, segments, brolls, arollId)

NotNull(x) == x # Null

ConfidentEnough(alloc) == ~(alloc.confidence < MIN_CONFIDENCE)

ReasonLongEnough(alloc) == ~(alloc.reason = "" \/ Len(alloc.reason) < 10)

\* The allocations matchAndAllocate returns (its stats are not read by its caller).
matchAndAllocate(segments, brolls, arollId, completion) ==
    IF completion.kind # "json" THEN <<>>
    ELSE LET rawAllocations ==
                 IF "allocations" \in DOMAIN completion THEN completion.allocations ELSE <<>>
             mapped == TransformSuggestions(rawAllocations, {}, segments, brolls, arollId)
         IN SelectSeq(SelectSeq(SelectSeq(mapped, NotNull), ConfidentEnough), ReasonLongEnough)

(***************************************************************************)
(* buildTimelineJson                                                       *)
(***************************************************************************)
Undefined == "undefined"

\* extractKeywords over the texts of the model (lower-cased words longer than
\* two letters that are no stop words); no text gives no keywords.
KeywordsOf(text) ==
    CASE text = "hands typing on keyboard" -> {"hands", "typing", "keyboard"}
      [] text = "sunset over the sea" -> {"sunset", "sea"}
      [] text = "a person cooking" -> {"person", "cooking"}
      [] OTHER -> {}

\* generateReason: the phrasing it picks and the description it quotes.
generateReason(segmentText, brollDescription) ==
    IF KeywordsOf(segmentText) \cap KeywordsOf(brollDescription) # {}
    THEN [phrasing |-> "speaker discusses", text |-> segmentText, description |-> brollDescription]
    ELSE [phrasing |-> "semantic match", description |-> brollDescription]

\* Array.prototype.sort((a, b) => a.start_sec - b.start_sec): stable, ascending
RECURSIVE InsertByStart(_, _)
InsertByStart(sorted, ins) ==
    IF sorted = <<>> THEN <<ins>>
    ELSE IF Head(sorted).start_sec <= ins.start_sec
         THEN <<Head(sorted)>> \o InsertByStart(Tail(sorted), ins)
         ELSE <<ins>> \o sorted

RECURSIVE SortByStartStable(_)
SortByStartStable(insertions) ==
    IF insertions = <<>> THEN <<>>
    ELSE InsertByStart(SortByStartStable(SubSeq(insertions, 1, Len(insertions) - 1)),
                       insertions[Len(insertions)])

SortByStartSkipped(insertions) == insertions

\* insertions.sort((a, b) => a.start_sec - b.start_sec)
SortByStart(insertions) == SortByStartStable(insertions)

InsertionOfDefaultDuration(alloc, brollMap) ==
    [start_sec |-> alloc.start_sec,
     duration_sec |-> DEFAULT_BROLL_DURATION,
     broll_id |-> alloc.broll_id,
     confidence |-> alloc.confidence,
     reason |-> generateReason(Undefined, Undefined)]

InsertionOf(alloc, brollMap) ==
    LET known == alloc.broll_id \in DOMAIN brollMap
        description ==
            IF known /\ brollMap[alloc.broll_id].description # ""
            THEN brollMap[alloc.broll_id].description
            ELSE IF "broll_description" \in DOMAIN alloc THEN alloc.broll_description ELSE Undefined
        segmentText == IF "segment_text" \in DOMAIN alloc THEN alloc.segment_text ELSE Undefined
    IN [start_sec |-> alloc.start_sec,
        duration_sec |->
            IF known /\ brollMap[alloc.broll_id].duration_sec # 0
            THEN brollMap[alloc.broll_id].duration_sec
            ELSE DEFAULT_BROLL_DURATION,
        broll_id |-> alloc.broll_id,
        confidence |-> alloc.confidence,
        reason |-> generateReason(segmentText, description)]

buildTimelineJson(aroll_id, aroll_duration, allocs, brollMap) ==
    [aroll_id |-> aroll_id,
     aroll_duration_sec |-> aroll_duration,
     insertions |-> SortByStart([i \in 1..Len(allocs) |-> InsertionOf(allocs[i], brollMap)])]

(***************************************************************************)
(* saveTimeline with no other writer at work between its findOne and its   *)
(* write: the stored timeline of that aroll_id is replaced by the one      *)
(* given, or the one given is inserted.                                    *)
(***************************************************************************)
saveTimeline(store, timeline) ==
    [a \in DOMAIN store \cup {timeline.aroll_id} |->
        IF a = timeline.aroll_id THEN timeline ELSE store[a]]

(***************************************************************************)
(* runMatchingPipeline                                                     *)
(***************************************************************************)
NoError == "none"

PipelineEntry ==
    /\ ppc = "idle"
    /\ IF Len(arollDb) = 0
       THEN /\ ppc' = "failed"
            /\ pipelineError' = "No processed A-rolls found."
       ELSE IF Len(brollDb) = 0
       THEN /\ ppc' = "failed"
            /\ pipelineError' = "No B-rolls found. Upload B-rolls first."
       ELSE /\ ppc' = "loop"
            /\ pipelineError' = NoError
    /\ pIdx' = 0
    /\ allAllocations' = <<>>
    /\ timelines' = <<>>
    /\ llmOutcomes' = <<>>
    /\ UNCHANGED <<env, buildVars, matchVars, allocVars, renderVars, saveVars, serveVars, arollDb, brollDb, timelineStore>>

\* One iteration of the loop over the A-rolls: the LLM completes, the
\* allocations are validated, the timeline is built and saved.
PipelineIteration ==
    /\ ppc = "loop"
    /\ pIdx < Len(arollDb)
    /\ \E completion \in Completions :
          LET aroll == ArollDocs[arollDb[pIdx + 1]]
              allocs == matchAndAllocate(aroll.segments, brollDb, aroll.aroll_id, completion)
              timeline == buildTimelineJson(aroll.aroll_id, aroll.duration_sec, allocs, BrollMapOf(brollDb))
          IN /\ allAllocations' = allAllocations \o allocs
             /\ timelineStore' = saveTimeline(timelineStore, timeline)
             /\ timelines' = Append(timelines, timeline)
             /\ llmOutcomes' = Append(llmOutcomes, completion.kind)
    /\ pIdx' = pIdx + 1
    /\ UNCHANGED <<env, buildVars, matchVars, allocVars, renderVars, saveVars, serveVars, arollDb, brollDb, ppc, pipelineError>>

PipelineReturn ==
    /\ ppc = "loop"
    /\ pIdx = Len(arollDb)
    /\ ppc' = "done"
    /\ UNCHANGED <<env, buildVars, matchVars, allocVars, renderVars, saveVars, serveVars, arollDb, brollDb, timelineStore, pIdx, allAllocations, timelines, pipelineError, llmOutcomes>>

PipeIdle ==
    /\ arollDb = <<>>
    /\ brollDb = <<>>
    /\ timelineStore = EmptyMap
    /\ ppc = "idle"
    /\ pIdx = 0
    /\ allAllocations = <<>>
    /\ timelines = <<>>
    /\ pipelineError = NoError
    /\ llmOutcomes = <<>>
(***************************************************************************)
(* renderVideo.  The promise executor runs to completion in one step; the  *)
(* ffmpeg process then reports through the start, progress, end and error  *)
(* events.  Every call has its own locals; the disk is shared.             *)
(***************************************************************************)
Renders == {1, 2}

\* path.resolve of a relative path, against the working directory
Resolve(p) == "/app/" \o p

\* fs.existsSync
ExistsSync(p) == Resolve(p) \in disk

Uuids == {"1b9d6bcd", "9c858901"}

\* path.join("exports", `final_${uuidv4().slice(0, 8)}.mp4`)
OutputPathOf(uuid) == "exports/final_" \o uuid \o ".mp4"

Pending == [kind |-> "pending"]

NoArgs == [timeline |-> [aroll_id |-> "", aroll_duration_sec |-> 0, insertions |-> <<>>],
           brollMap |-> EmptyMap, aroll |-> [aroll_id |-> "", file_path |-> ""]]

ArollFileAssumed(aroll) == TRUE

\* fs.existsSync(path.resolve(aroll.file_path))
ArollFilePresent(aroll) == ExistsSync(aroll.file_path)

InsertionInMap(ins, brollMap) == ins.broll_id \in DOMAIN brollMap

\* The test of the forEach over timeline.insertions: the B-roll is in the map
\* and its file is on disk.
InsertionUsable(ins, brollMap) ==
    /\ ins.broll_id \in DOMAIN brollMap
    /\ ExistsSync(brollMap[ins.broll_id].file_path)

RECURSIVE KeepValidNewestFirst(_, _)
KeepValidNewestFirst(insertions, brollMap) ==
    IF insertions = <<>> THEN <<>>
    ELSE LET ins == Head(insertions)
         IN KeepValidNewestFirst(Tail(insertions), brollMap)
            \o (IF InsertionUsable(ins, brollMap) THEN <<ins>> ELSE <<>>)

\* The forEach over timeline.insertions: the insertions kept, in order.
RECURSIVE KeepValid(_, _)
KeepValid(insertions, brollMap) ==
    IF insertions = <<>> THEN <<>>
    ELSE LET ins == Head(insertions)
         IN (IF InsertionUsable(ins, brollMap) THEN <<ins>> ELSE <<>>)
            \o KeepValid(Tail(insertions), brollMap)

BaseNode == [kind |-> "scale", input |-> "0:v", output |-> "base"]

DelayNodeZeroBased(ins, index) ==
    [kind |-> "delay", input |-> ToString(index) \o ":v", shift |-> ins.start_sec,
     output |-> "b" \o ToString(index) \o "_delayed"]

DelayNode(ins, index) ==
    [kind |-> "delay", input |-> ToString(index + 1) \o ":v", shift |-> ins.start_sec,
     output |-> "b" \o ToString(index) \o "_delayed"]

OverlayNodeOnBase(index) ==
    [kind |-> "overlay", main |-> "base",
     over |-> "b" \o ToString(index) \o "_delayed", output |-> "tmp" \o ToString(index)]

OverlayNode(index) ==
    [kind |-> "overlay", main |-> IF index = 0 THEN "base" ELSE "tmp" \o ToString(index - 1),
     over |-> "b" \o ToString(index) \o "_delayed", output |-> "tmp" \o ToString(index)]

\* complexFilter after the base push and the two forEach loops (index is 0-based)
ComplexFilterOf(valid) ==
    <<BaseNode>>
        \o [k \in 1..Len(valid) |-> DelayNode(valid[k], k - 1)]
        \o [k \in 1..Len(valid) |-> OverlayNode(k - 1)]

LastStreamUnscaled(valid) == IF valid = <<>> THEN "0:v" ELSE "tmp" \o ToString(Len(valid) - 1)

LastStreamOf(valid) == IF valid = <<>> THEN "base" ELSE "tmp" \o ToString(Len(valid) - 1)

\* The call and its promise executor, for a call whose arguments are ready.
RenderVideoCall(r) ==
    /\ rpc[r] = "idle"
    /\ renderArgs[r] # NoArgs
    /\ \E uuid \in Uuids :
          LET aroll == renderArgs[r].aroll
              valid == KeepValid(renderArgs[r].timeline.insertions, renderArgs[r].brollMap)
          IN /\ outputPath' = [outputPath EXCEPT ![r] = OutputPathOf(uuid)]
             /\ disk' = disk \cup {Resolve("exports")}
             /\ IF ~ArollFilePresent(aroll)
                THEN /\ renderOutcome' =
                           [renderOutcome EXCEPT ![r] =
                               [kind |-> "rejected",
                                message |-> "A-roll file not found: " \o Resolve(aroll.file_path)]]
                     /\ rpc' = [rpc EXCEPT ![r] = "failed"]
                     /\ UNCHANGED <<commandInputs, validInsertions, complexFilter, outputMaps, processRuns>>
                ELSE /\ commandInputs' =
                           [commandInputs EXCEPT ![r] =
                               <<Resolve(aroll.file_path)>>
                                  \o [k \in 1..Len(valid) |->
                                         Resolve(renderArgs[r].brollMap[valid[k].broll_id].file_path)]]
                     /\ validInsertions' = [validInsertions EXCEPT ![r] = valid]
                     /\ complexFilter' = [complexFilter EXCEPT ![r] = ComplexFilterOf(valid)]
                     /\ outputMaps' = [outputMaps EXCEPT ![r] = <<LastStreamOf(valid), "0:a">>]
                     /\ processRuns' = [processRuns EXCEPT ![r] = @ + 1]
                     /\ rpc' = [rpc EXCEPT ![r] = "encoding"]
                     /\ UNCHANGED renderOutcome
    /\ UNCHANGED <<env, buildVars, matchVars, allocVars, pipeVars, saveVars, serveVars, renderArgs, started, progressLog>>

\* .on("start")
FfmpegStart(r) ==
    /\ rpc[r] = "encoding"
    /\ ~started[r]
    /\ started' = [started EXCEPT ![r] = TRUE]
    /\ UNCHANGED <<env, buildVars, matchVars, allocVars, pipeVars, saveVars, serveVars, disk, renderArgs, rpc, outputPath,
                   commandInputs, validInsertions, complexFilter, outputMaps, processRuns,
                   progressLog, renderOutcome>>

\* The percents ffmpeg may report, in tenths of a percent; 0 stands for a
\* missing or zero percent.
ProgressPercents == {0, 404, 796, 1200}

\* Math.round of a number given in tenths
MathRoundTenths(tenths) == (tenths + 5) \div 10

\* .on("progress"): a falsy percent writes nothing
FfmpegProgress(r) ==
    /\ rpc[r] = "encoding"
    /\ started[r]
    /\ Len(progressLog[r]) < MaxProgressEvents
    /\ \E percent \in ProgressPercents :
          /\ percent # 0
          /\ progressLog' = [progressLog EXCEPT ![r] = Append(@, MathRoundTenths(percent))]
    /\ UNCHANGED <<env, buildVars, matchVars, allocVars, pipeVars, saveVars, serveVars, disk, renderArgs, rpc, outputPath,
                   commandInputs, validInsertions, complexFilter, outputMaps, processRuns, started,
                   renderOutcome>>

FfmpegEndAfterError(r) ==
    /\ rpc[r] \in {"encoding", "failed"}
    /\ processRuns[r] = 1
    /\ rpc' = [rpc EXCEPT ![r] = "completed"]
    /\ renderOutcome' = [renderOutcome EXCEPT ![r] = [kind |-> "resolved", value |-> outputPath[r]]]
    /\ disk' = disk \cup {Resolve(outputPath[r])}
    /\ UNCHANGED <<env, buildVars, matchVars, allocVars, pipeVars, saveVars, serveVars, renderArgs, outputPath,
                   commandInputs, validInsertions, complexFilter, outputMaps, processRuns, started,
                   progressLog>>

\* .on("end")
FfmpegEnd(r) ==
    /\ rpc[r] = "encoding"
    /\ started[r]
    /\ rpc' = [rpc EXCEPT ![r] = "completed"]
    /\ renderOutcome' = [renderOutcome EXCEPT ![r] = [kind |-> "resolved", value |-> outputPath[r]]]
    /\ disk' = disk \cup {Resolve(outputPath[r])}
    /\ UNCHANGED <<env, buildVars, matchVars, allocVars, pipeVars, saveVars, serveVars, renderArgs, outputPath,
                   commandInputs, validInsertions, complexFilter, outputMaps, processRuns, started,
                   progressLog>>

FfmpegErrorRetried(r) ==
    /\ rpc[r] = "encoding"
    /\ processRuns' = [processRuns EXCEPT ![r] = @ + 1]
    /\ started' = [started EXCEPT ![r] = FALSE]
    /\ UNCHANGED <<env, buildVars, matchVars, allocVars, pipeVars, saveVars, serveVars, disk, renderArgs, rpc, outputPath,
                   commandInputs, validInsertions, complexFilter, outputMaps, progressLog,
                   renderOutcome>>

\* .on("error"): the process could not be spawned or exited with an error; a
\* partial output file may be left behind
FfmpegError(r) ==
    /\ rpc[r] = "encoding"
    /\ rpc' = [rpc EXCEPT ![r] = "failed"]
    /\ renderOutcome' = [renderOutcome EXCEPT ![r] =
                            [kind |-> "rejected", message |-> "ffmpeg exited with an error"]]
    /\ disk' \in {disk, disk \cup {Resolve(outputPath[r])}}
    /\ UNCHANGED <<env, buildVars, matchVars, allocVars, pipeVars, saveVars, serveVars, renderArgs, outputPath,
                   commandInputs, validInsertions, complexFilter, outputMaps, processRuns, started,
                   progressLog>>

\* No call of renderVideo was made.
RendersIdle ==
    /\ renderArgs = [r \in Renders |-> NoArgs]
    /\ rpc = [r \in Renders |-> "idle"]
    /\ outputPath = [r \in Renders |-> ""]
    /\ commandInputs = [r \in Renders |-> <<>>]
    /\ validInsertions = [r \in Renders |-> <<>>]
    /\ complexFilter = [r \in Renders |-> <<>>]
    /\ outputMaps = [r \in Renders |-> <<>>]
    /\ processRuns = [r \in Renders |-> 0]
    /\ started = [r \in Renders |-> FALSE]
    /\ progressLog = [r \in Renders |-> <<>>]
    /\ renderOutcome = [r \in Renders |-> Pending]

RenderIdle ==
    /\ disk = {}
    /\ RendersIdle

(***************************************************************************)
(* Idle states of saveTimeline's callers and of the POST /render handler.  *)
(***************************************************************************)
Savers == {1, 2}

NoTimeline == [aroll_id |-> "", aroll_duration_sec |-> 0, insertions |-> <<>>]

\* No call of saveTimeline is in progress.
SaveIdle ==
    /\ spc = [c \in Savers |-> "idle"]
    /\ saveArg = [c \in Savers |-> NoTimeline]
    /\ saveExisting = [c \in Savers |-> FALSE]
    /\ saveResult = [c \in Savers |-> Pending]

NoBuildArgs == [aroll_id |-> "", aroll_duration |-> 0, allocations |-> <<>>, brollMap |-> EmptyMap]

\* buildTimelineJson was not called directly.
BuildIdle ==
    /\ buildArgs = NoBuildArgs
    /\ buildResult = NoTimeline

NoMatchArgs == [arollId |-> ""]

NoMatchResult == [returned |-> FALSE]

\* matchAndAllocate was not called directly.
MatchIdle ==
    /\ matchArgs = NoMatchArgs
    /\ matchResult = NoMatchResult

NoBody == [none |-> TRUE]

NoResponse == [status |-> 0]

NoTimer == [state |-> "none"]

\* No POST /render request was received.
ServeIdle ==
    /\ reqBody = [r \in Renders |-> NoBody]
    /\ hpc = [r \in Renders |-> "idle"]
    /\ hTimeline = [r \in Renders |-> NoTimeline]
    /\ hAroll = [r \in Renders |-> NoArgs.aroll]
    /\ response = [r \in Renders |-> NoResponse]
    /\ timer = [r \in Renders |-> NoTimer]
    /\ unlinkCalls = [r \in Renders |-> 0]
    /\ cleanupLog = [r \in Renders |-> <<>>]

(***************************************************************************)
(* POST /api/pipeline/render.  The handler runs from one await to the next *)
(* in one step; handlers of different requests interleave at the awaits.   *)
(* The timeout callback is a step of its own.                              *)
(***************************************************************************)
\* req.body of the requests: two A-roll ids and a body without aroll_id
Bodies == { [aroll_id |-> "a1"], [aroll_id |-> "a2"], [name |-> "a1"] }

\* 5 * 60 * 1000
CLEANUP_DELAY_MS == 5 * 60 * 1000

\* From the request to the first await: the 400 answer, or getTimeline is called.
ReqReceive(r) ==
    /\ hpc[r] = "idle"
    /\ \E body \in Bodies :
          /\ reqBody' = [reqBody EXCEPT ![r] = body]
          /\ IF "aroll_id" \notin DOMAIN body
             THEN /\ response' = [response EXCEPT ![r] = [status |-> 400, error |-> "aroll_id is required"]]
                  /\ hpc' = [hpc EXCEPT ![r] = "responded"]
             ELSE /\ hpc' = [hpc EXCEPT ![r] = "timeline"]
                  /\ UNCHANGED response
    /\ UNCHANGED <<env, buildVars, matchVars, allocVars, pipeVars, renderVars, saveVars, hTimeline, hAroll, timer,
                   unlinkCalls, cleanupLog>>

\* getTimeline(aroll_id) answers: Timeline.findOne({ aroll_id })
ReqTimeline(r) ==
    /\ hpc[r] = "timeline"
    /\ IF reqBody[r].aroll_id \notin DOMAIN timelineStore
       THEN /\ response' = [response EXCEPT ![r] = [status |-> 404, error |-> "Timeline not found"]]
            /\ hpc' = [hpc EXCEPT ![r] = "responded"]
            /\ UNCHANGED hTimeline
       ELSE /\ hTimeline' = [hTimeline EXCEPT ![r] = timelineStore[reqBody[r].aroll_id]]
            /\ hpc' = [hpc EXCEPT ![r] = "aroll"]
            /\ UNCHANGED response
    /\ UNCHANGED <<env, buildVars, matchVars, allocVars, pipeVars, renderVars, saveVars, reqBody, hAroll, timer,
                   unlinkCalls, cleanupLog>>

\* ARoll.findOne({ aroll_id }) answers; arollDb lists the stored A-rolls
ReqAroll(r) ==
    /\ hpc[r] = "aroll"
    /\ IF reqBody[r].aroll_id \notin Range(arollDb)
       THEN /\ response' = [response EXCEPT ![r] = [status |-> 404, error |-> "A-roll not found"]]
            /\ hpc' = [hpc EXCEPT ![r] = "responded"]
            /\ UNCHANGED hAroll
       ELSE /\ hAroll' = [hAroll EXCEPT ![r] =
                            [aroll_id |-> reqBody[r].aroll_id,
                             file_path |-> ArollDocs[reqBody[r].aroll_id].file_path]]
            /\ hpc' = [hpc EXCEPT ![r] = "brolls"]
            /\ UNCHANGED response
    /\ UNCHANGED <<env, buildVars, matchVars, allocVars, pipeVars, renderVars, saveVars, reqBody, hTimeline, timer,
                   unlinkCalls, cleanupLog>>

ReqBrollsRereading(r) ==
    /\ hpc[r] = "brolls"
    /\ renderArgs' = [renderArgs EXCEPT ![r] =
                         [timeline |-> IF reqBody[r].aroll_id \in DOMAIN timelineStore
                                       THEN timelineStore[reqBody[r].aroll_id]
                                       ELSE hTimeline[r],
                          brollMap |-> BrollMapOf(brollDb), aroll |-> hAroll[r]]]
    /\ hpc' = [hpc EXCEPT ![r] = "rendering"]
    /\ UNCHANGED <<env, buildVars, matchVars, allocVars, pipeVars, saveVars, disk, rpc, outputPath, commandInputs,
                   validInsertions, complexFilter, outputMaps, processRuns, started, progressLog,
                   renderOutcome, reqBody, hTimeline, hAroll, response, timer, unlinkCalls, cleanupLog>>

\* getAllBrolls() answers, brollMap is built and, the imports done, the
\* arguments of renderVideo stand ready.
ReqBrolls(r) ==
    /\ hpc[r] = "brolls"
    /\ renderArgs' = [renderArgs EXCEPT ![r] =
                         [timeline |-> hTimeline[r], brollMap |-> BrollMapOf(brollDb), aroll |-> hAroll[r]]]
    /\ hpc' = [hpc EXCEPT ![r] = "rendering"]
    /\ UNCHANGED <<env, buildVars, matchVars, allocVars, pipeVars, saveVars, disk, rpc, outputPath, commandInputs,
                   validInsertions, complexFilter, outputMaps, processRuns, started, progressLog,
                   renderOutcome, reqBody, hTimeline, hAroll, response, timer, unlinkCalls, cleanupLog>>

ReqRespondAlwaysScheduling(r) ==
    /\ hpc[r] = "rendering"
    /\ renderOutcome[r] # Pending
    /\ timer' = [timer EXCEPT ![r] =
                    [state |-> "pending", path |-> outputPath[r], delay |-> CLEANUP_DELAY_MS]]
    /\ IF renderOutcome[r].kind = "resolved"
       THEN response' = [response EXCEPT ![r] =
                            [status |-> 200, outputPath |-> renderOutcome[r].value]]
       ELSE response' = [response EXCEPT ![r] =
                            [status |-> 500, error |-> renderOutcome[r].message]]
    /\ hpc' = [hpc EXCEPT ![r] = "responded"]
    /\ UNCHANGED <<env, buildVars, matchVars, allocVars, pipeVars, renderVars, saveVars, reqBody, hTimeline, hAroll,
                   unlinkCalls, cleanupLog>>

\* await renderVideo(...) returns or throws: the timeout is set and the 200
\* answer sent, or the catch block sends the 500 answer.
ReqRespond(r) ==
    /\ hpc[r] = "rendering"
    /\ renderOutcome[r] # Pending
    /\ IF renderOutcome[r].kind = "resolved"
       THEN /\ timer' = [timer EXCEPT ![r] =
                            [state |-> "pending", path |-> renderOutcome[r].value,
                             delay |-> CLEANUP_DELAY_MS]]
            /\ response' = [response EXCEPT ![r] =
                               [status |-> 200, outputPath |-> renderOutcome[r].value]]
       ELSE /\ response' = [response EXCEPT ![r] =
                               [status |-> 500, error |-> renderOutcome[r].message]]
            /\ UNCHANGED timer
    /\ hpc' = [hpc EXCEPT ![r] = "responded"]
    /\ UNCHANGED <<env, buildVars, matchVars, allocVars, pipeVars, renderVars, saveVars, reqBody, hTimeline, hAroll,
                   unlinkCalls, cleanupLog>>

CleanupFireRetrying(r) ==
    /\ timer[r].state = "pending"
    /\ IF ExistsSync(timer[r].path)
       THEN /\ unlinkCalls' = [unlinkCalls EXCEPT ![r] = @ + 1]
            /\ \/ /\ disk' = disk \ {Resolve(timer[r].path)}
                  /\ cleanupLog' = [cleanupLog EXCEPT ![r] = Append(@, "Cleaned up")]
                  /\ timer' = [timer EXCEPT ![r].state = "fired"]
               \/ /\ disk' = disk
                  /\ cleanupLog' = [cleanupLog EXCEPT ![r] = Append(@, "Failed to cleanup")]
                  /\ UNCHANGED timer
       ELSE /\ timer' = [timer EXCEPT ![r].state = "fired"]
            /\ UNCHANGED <<unlinkCalls, disk, cleanupLog>>
    /\ UNCHANGED <<env, buildVars, matchVars, allocVars, pipeVars, saveVars, renderArgs, rpc, outputPath, commandInputs,
                   validInsertions, complexFilter, outputMaps, processRuns, started, progressLog,
                   renderOutcome, reqBody, hpc, hTimeline, hAroll, response>>

\* The timeout callback, once the delay has passed: existsSync, then
\* unlinkSync, which removes the file or throws into the catch block.
CleanupFire(r) ==
    /\ timer[r].state = "pending"
    /\ timer' = [timer EXCEPT ![r].state = "fired"]
    /\ IF ExistsSync(timer[r].path)
       THEN /\ unlinkCalls' = [unlinkCalls EXCEPT ![r] = @ + 1]
            /\ \/ /\ disk' = disk \ {Resolve(timer[r].path)}
                  /\ cleanupLog' = [cleanupLog EXCEPT ![r] = Append(@, "Cleaned up")]
               \/ /\ disk' = disk
                  /\ cleanupLog' = [cleanupLog EXCEPT ![r] = Append(@, "Failed to cleanup")]
       ELSE UNCHANGED <<unlinkCalls, disk, cleanupLog>>
    /\ UNCHANGED <<env, buildVars, matchVars, allocVars, pipeVars, saveVars, renderArgs, rpc, outputPath, commandInputs,
                   validInsertions, complexFilter, outputMaps, processRuns, started, progressLog,
                   renderOutcome, reqBody, hpc, hTimeline, hAroll, response>>

(***************************************************************************)
(* Spec: one call of allocateBrolls on an arbitrary list of matches.       *)
(***************************************************************************)
Init ==
    /\ env \in Envs
    /\ sortedMatches \in SeqsUpTo(MatchPool, MaxMatches)
    /\ AllocIdle
    /\ PipeIdle
    /\ RenderIdle
    /\ SaveIdle
    /\ ServeIdle
    /\ BuildIdle
    /\ MatchIdle

Next ==
    \/ AllocEntry(1)
    \/ AllocReject(1)
    \/ AllocAccept(1)
    \/ AllocReturn(1)

Spec == Init /\ [][Next]_vars

(***************************************************************************)
(* SpecReent: two calls of allocateBrolls on the same list, their loop     *)
(* iterations interleaved in every order (sequential runs included).       *)
(***************************************************************************)
InitReent ==
    /\ env \in Envs
    /\ sortedMatches \in SeqsUpTo(MatchPool, MaxReentMatches)
    /\ AllocIdle
    /\ PipeIdle
    /\ RenderIdle
    /\ SaveIdle
    /\ ServeIdle
    /\ BuildIdle
    /\ MatchIdle

NextReent ==
    \E c \in Calls :
        \/ AllocEntry(c)
        \/ AllocReject(c)
        \/ AllocAccept(c)
        \/ AllocReturn(c)

SpecReent == InitReent /\ [][NextReent]_vars

(***************************************************************************)
(* SpecPipeline: one run of runMatchingPipeline over the processed A-rolls *)
(* of the database, the LLM answering each A-roll in any way it can.       *)
(***************************************************************************)
\* A timeline stored by an earlier run.
OldTimeline ==
    [aroll_id |-> "a1", aroll_duration_sec |-> 14,
     insertions |-> <<[start_sec |-> 10, duration_sec |-> 2, broll_id |-> "b3", confidence |-> 70,
                       reason |-> [phrasing |-> "semantic match", description |-> "a person cooking"]]>>]

InitPipeline ==
    /\ env \in Envs
    /\ sortedMatches = <<>>
    /\ AllocIdle
    /\ arollDb \in {<<>>, <<"a1">>, <<"a1", "a2">>, <<"a2", "a1">>}
    /\ brollDb \in {<<>>, BrollDocs}
    /\ timelineStore \in {EmptyMap, [a \in {"a1"} |-> OldTimeline]}
    /\ ppc = "idle"
    /\ pIdx = 0
    /\ allAllocations = <<>>
    /\ timelines = <<>>
    /\ pipelineError = NoError
    /\ llmOutcomes = <<>>
    /\ RenderIdle
    /\ SaveIdle
    /\ ServeIdle
    /\ BuildIdle
    /\ MatchIdle

NextPipeline ==
    \/ PipelineEntry
    \/ PipelineIteration
    \/ PipelineReturn

SpecPipeline == InitPipeline /\ [][NextPipeline]_vars

(***************************************************************************)
(* SpecRender: one call of renderVideo on a stored timeline, with any of   *)
(* the media files present or absent on disk.                              *)
(***************************************************************************)
StoredInsertion(b, start) ==
    [start_sec |-> start, duration_sec |-> 3, broll_id |-> b, confidence |-> 90,
     reason |-> [phrasing |-> "semantic match", description |-> "a clip"]]

InsertionPool ==
    { StoredInsertion("b1", 2), StoredInsertion("b2", 3), StoredInsertion("b2", 10), StoredInsertion("b9", 10) }

IsSortedByStart(insertions) ==
    \A i, j \in 1..Len(insertions) : i < j => insertions[i].start_sec <= insertions[j].start_sec

\* Stored timelines are sorted: buildTimelineJson is their only writer.
StoredTimelines ==
    { [aroll_id |-> "a1", aroll_duration_sec |-> 14, insertions |-> ins] :
        ins \in {x \in SeqsUpTo(InsertionPool, MaxInsertions) : IsSortedByStart(x)} }

MediaFiles == { Resolve("uploads/aroll/a1.mp4"), Resolve("uploads/broll/b1.mp4"), Resolve("uploads/broll/b2.mp4") }

InitRender ==
    /\ env = DefaultEnv
    /\ sortedMatches = <<>>
    /\ AllocIdle
    /\ PipeIdle
    /\ SaveIdle
    /\ ServeIdle
    /\ BuildIdle
    /\ MatchIdle
    /\ disk \in {files \cup dirs : files \in SUBSET MediaFiles, dirs \in {{}, {Resolve("exports")}}}
    /\ renderArgs \in
          { [r \in Renders |->
                IF r = 1
                THEN [timeline |-> t, brollMap |-> BrollMapOf(BrollDocs),
                      aroll |-> [aroll_id |-> "a1", file_path |-> ArollDocs["a1"].file_path]]
                ELSE NoArgs] :
               t \in StoredTimelines }
    /\ rpc = [r \in Renders |-> "idle"]
    /\ outputPath = [r \in Renders |-> ""]
    /\ commandInputs = [r \in Renders |-> <<>>]
    /\ validInsertions = [r \in Renders |-> <<>>]
    /\ complexFilter = [r \in Renders |-> <<>>]
    /\ outputMaps = [r \in Renders |-> <<>>]
    /\ processRuns = [r \in Renders |-> 0]
    /\ started = [r \in Renders |-> FALSE]
    /\ progressLog = [r \in Renders |-> <<>>]
    /\ renderOutcome = [r \in Renders |-> Pending]

NextRender ==
    \/ RenderVideoCall(1)
    \/ FfmpegStart(1)
    \/ FfmpegProgress(1)
    \/ FfmpegEnd(1)
    \/ FfmpegError(1)

SpecRender == InitRender /\ [][NextRender]_vars

(***************************************************************************)
(* SpecServe: two POST /render requests, their handlers, renders and       *)
(* timeouts interleaved in every order.  The progress events only write to *)
(* the terminal and are left out.                                          *)
(***************************************************************************)
ServedTimeline ==
    [aroll_id |-> "a1", aroll_duration_sec |-> 14,
     insertions |-> <<StoredInsertion("b1", 2), StoredInsertion("b9", 10)>>]

InitServe ==
    /\ env = DefaultEnv
    /\ sortedMatches = <<>>
    /\ AllocIdle
    /\ arollDb \in {<<>>, <<"a1">>}
    /\ brollDb = BrollDocs
    /\ timelineStore = [a \in {"a1"} |-> ServedTimeline]
    /\ ppc = "idle"
    /\ pIdx = 0
    /\ allAllocations = <<>>
    /\ timelines = <<>>
    /\ pipelineError = NoError
    /\ llmOutcomes = <<>>
    /\ disk \in SUBSET {Resolve("uploads/aroll/a1.mp4"), Resolve("uploads/broll/b1.mp4")}
    /\ RendersIdle
    /\ SaveIdle
    /\ ServeIdle
    /\ BuildIdle
    /\ MatchIdle

NextServe ==
    \E r \in Renders :
        \/ ReqReceive(r)
        \/ ReqTimeline(r)
        \/ ReqAroll(r)
        \/ ReqBrolls(r)
        \/ RenderVideoCall(r)
        \/ FfmpegStart(r)
        \/ FfmpegEnd(r)
        \/ FfmpegError(r)
        \/ ReqRespond(r)
        \/ CleanupFire(r)

SpecServe == InitServe /\ [][NextServe]_vars

(***************************************************************************)
(* SpecSave: two calls of saveTimeline, sequential or concurrent.  A call  *)
(* awaits Timeline.findOne and then, depending on what it found, awaits    *)
(* findOneAndUpdate or save(); other calls run between the two awaits.     *)
(* The unique index on aroll_id lets the collection hold one document per  *)
(* aroll_id and makes an insert of a second one fail.                      *)
(***************************************************************************)
SaveTimelines ==
    { [aroll_id |-> "a1", aroll_duration_sec |-> 14, insertions |-> <<StoredInsertion("b1", 2)>>],
      [aroll_id |-> "a1", aroll_duration_sec |-> 14,
       insertions |-> <<StoredInsertion("b2", 3), StoredInsertion("b3", 10)>>],
      [aroll_id |-> "a2", aroll_duration_sec |-> 9, insertions |-> <<StoredInsertion("b1", 1)>>] }

\* saveTimeline(timeline) is called: Timeline.findOne is sent
SaveCall(c) ==
    /\ spc[c] = "idle"
    /\ \E timeline \in SaveTimelines : saveArg' = [saveArg EXCEPT ![c] = timeline]
    /\ spc' = [spc EXCEPT ![c] = "finding"]
    /\ UNCHANGED <<env, buildVars, matchVars, allocVars, pipeVars, renderVars, serveVars, saveExisting, saveResult>>

\* const existing = await Timeline.findOne({ aroll_id: timeline.aroll_id })
SaveFindOne(c) ==
    /\ spc[c] = "finding"
    /\ saveExisting' = [saveExisting EXCEPT ![c] = saveArg[c].aroll_id \in DOMAIN timelineStore]
    /\ spc' = [spc EXCEPT ![c] = "writing"]
    /\ UNCHANGED <<env, buildVars, matchVars, allocVars, pipeVars, renderVars, serveVars, saveArg, saveResult>>

\* if (existing): findOneAndUpdate without upsert, which returns null when no
\* document matches; otherwise new Timeline(timeline).save(), an insert, which
\* the unique index rejects when a document of that aroll_id is there.
SaveWrite(c) ==
    /\ spc[c] = "writing"
    /\ IF saveExisting[c]
       THEN /\ spc' = [spc EXCEPT ![c] = "done"]
            /\ IF saveArg[c].aroll_id \in DOMAIN timelineStore
               THEN /\ timelineStore' = saveTimeline(timelineStore, saveArg[c])
                    /\ saveResult' = [saveResult EXCEPT ![c] = [kind |-> "resolved", value |-> saveArg[c]]]
               ELSE /\ UNCHANGED timelineStore
                    /\ saveResult' = [saveResult EXCEPT ![c] = [kind |-> "resolved", value |-> Null]]
       ELSE IF saveArg[c].aroll_id \in DOMAIN timelineStore
            THEN /\ spc' = [spc EXCEPT ![c] = "failed"]
                 /\ saveResult' = [saveResult EXCEPT ![c] =
                                      [kind |-> "rejected", message |-> "E11000 duplicate key error"]]
                 /\ UNCHANGED timelineStore
            ELSE /\ spc' = [spc EXCEPT ![c] = "done"]
                 /\ timelineStore' = saveTimeline(timelineStore, saveArg[c])
                 /\ saveResult' = [saveResult EXCEPT ![c] = [kind |-> "resolved", value |-> saveArg[c]]]
    /\ UNCHANGED <<env, buildVars, matchVars, allocVars, renderVars, serveVars, arollDb, brollDb, ppc, pIdx,
                   allAllocations, timelines, pipelineError, llmOutcomes, saveArg, saveExisting>>

InitSave ==
    /\ env = DefaultEnv
    /\ sortedMatches = <<>>
    /\ AllocIdle
    /\ arollDb = <<>>
    /\ brollDb = <<>>
    /\ timelineStore \in {EmptyMap, [a \in {"a1"} |-> OldTimeline]}
    /\ ppc = "idle"
    /\ pIdx = 0
    /\ allAllocations = <<>>
    /\ timelines = <<>>
    /\ pipelineError = NoError
    /\ llmOutcomes = <<>>
    /\ RenderIdle
    /\ SaveIdle
    /\ ServeIdle
    /\ BuildIdle
    /\ MatchIdle

NextSave ==
    \E c \in Savers :
        \/ SaveCall(c)
        \/ SaveFindOne(c)
        \/ SaveWrite(c)

SpecSave == InitSave /\ [][NextSave]_vars

(***************************************************************************)
(* POST /render requests while the stored Timeline of a1 is replaced by a  *)
(* saveTimeline call or removed by deleteTimeline.                         *)
(***************************************************************************)
\* Timeline.findOneAndDelete({ aroll_id })
deleteTimeline(store, aroll_id) == [a \in DOMAIN store \ {aroll_id} |-> store[a]]

\* deleteTimeline("a1") is called and answers.
DeleteTimelineCall ==
    /\ "a1" \in DOMAIN timelineStore
    /\ timelineStore' = deleteTimeline(timelineStore, "a1")
    /\ UNCHANGED <<env, buildVars, matchVars, allocVars, renderVars, saveVars, serveVars, arollDb, brollDb,
                   ppc, pIdx, allAllocations, timelines, pipelineError, llmOutcomes>>

InitServeStore ==
    /\ env = DefaultEnv
    /\ sortedMatches = <<>>
    /\ AllocIdle
    /\ arollDb = <<"a1">>
    /\ brollDb = BrollDocs
    /\ timelineStore = [a \in {"a1"} |-> ServedTimeline]
    /\ ppc = "idle"
    /\ pIdx = 0
    /\ allAllocations = <<>>
    /\ timelines = <<>>
    /\ pipelineError = NoError
    /\ llmOutcomes = <<>>
    /\ disk = MediaFiles
    /\ RendersIdle
    /\ SaveIdle
    /\ ServeIdle
    /\ BuildIdle
    /\ MatchIdle

NextServeStore ==
    \/ NextServe
    \/ SaveCall(1)
    \/ SaveFindOne(1)
    \/ SaveWrite(1)
    \/ DeleteTimelineCall

SpecServeStore == InitServeStore /\ [][NextServeStore]_vars

(***************************************************************************)
(* SpecBuild: one direct call of buildTimelineJson on allocations of the   *)
(* shape matchAndAllocate returns and an asset map that holds all, one or  *)
(* none of the stored B-rolls.  Stored B-rolls have a non-zero duration:   *)
(* the upload route stores parseFloat(duration) || 2.5.                    *)
(***************************************************************************)
BuildAllocation(b, start) ==
    [aroll_id |-> "a1", segment_id |-> "seg_01", broll_id |-> b, start_sec |-> start,
     end_sec |-> start + 4, confidence |-> 90, reason |-> LongReason]

BuildAllocations == { BuildAllocation(b, start) : b \in {"b1", "b2", "b9"}, start \in {2, 10} }

\* buildTimelineJson(aroll_id, aroll_duration, allocations, brollMap)
BuildTimelineCall ==
    /\ buildArgs # NoBuildArgs
    /\ buildResult = NoTimeline
    /\ buildResult' = buildTimelineJson(buildArgs.aroll_id, buildArgs.aroll_duration,
                                        buildArgs.allocations, buildArgs.brollMap)
    /\ UNCHANGED <<env, allocVars, pipeVars, renderVars, saveVars, serveVars, matchVars, buildArgs>>

InitBuild ==
    /\ env \in Envs
    /\ sortedMatches = <<>>
    /\ AllocIdle
    /\ PipeIdle
    /\ RenderIdle
    /\ SaveIdle
    /\ ServeIdle
    /\ buildArgs \in
          { [aroll_id |-> "a1", aroll_duration |-> 14, allocations |-> allocs, brollMap |-> map] :
               allocs \in SeqsUpTo(BuildAllocations, MaxInsertions),
               map \in {BrollMapOf(BrollDocs), BrollMapOf(<<BrollDocs[1]>>), EmptyMap} }
    /\ buildResult = NoTimeline
    /\ MatchIdle

NextBuild == BuildTimelineCall

SpecBuild == InitBuild /\ [][NextBuild]_vars

(***************************************************************************)
(* One call of matchAndAllocate for A-roll a1 and the three B-rolls, with  *)
(* every chat completion of the model.                                     *)
(***************************************************************************)
\* matchAndAllocate(segments, brolls, arollId), the completion arriving at its await
MatchAndAllocateCall ==
    /\ matchArgs # NoMatchArgs
    /\ matchResult = NoMatchResult
    /\ matchResult' =
          [returned |-> TRUE,
           allocations |-> matchAndAllocate(matchArgs.segments, matchArgs.brolls,
                                            matchArgs.arollId, matchArgs.completion)]
    /\ UNCHANGED <<env, allocVars, pipeVars, renderVars, saveVars, serveVars, buildVars, matchArgs>>

InitMatch ==
    /\ env \in Envs
    /\ sortedMatches = <<>>
    /\ AllocIdle
    /\ PipeIdle
    /\ RenderIdle
    /\ SaveIdle
    /\ ServeIdle
    /\ BuildIdle
    /\ matchArgs \in
          { [segments |-> ArollDocs["a1"].segments, brolls |-> BrollDocs, arollId |-> "a1",
             completion |-> completion] : completion \in Completions }
    /\ matchResult = NoMatchResult

NextMatch == MatchAndAllocateCall

SpecMatch == InitMatch /\ [][NextMatch]_vars

(***************************************************************************)
(* Properties of the allocator.                                            *)
(***************************************************************************)
NoBrollTwice(allocs) ==
    \A i, j \in 1..Len(allocs) : i # j => allocs[i].broll_id # allocs[j].broll_id

CountFor(allocs, a) == Cardinality({i \in 1..Len(allocs) : allocs[i].aroll_id = a})

\* C1: the allocations of allocateBrolls, running and returned, hold no
\* broll_id twice, counted over all A-rolls together.
C1_GlobalUniqueness ==
    /\ NoBrollTwice(allocations[1])
    /\ NoBrollTwice(allocResult[1].allocations)

\* C1 witness: a finished call whose input offered one B-roll to two different
\* A-rolls, both offers above the threshold, and which allocated on both A-rolls.
C1_Witness ==
    /\ apc[1] = "done"
    /\ \E i, j \in 1..Len(sortedMatches) :
          /\ i < j
          /\ sortedMatches[i].broll_id = sortedMatches[j].broll_id
          /\ sortedMatches[i].aroll_id # sortedMatches[j].aroll_id
          /\ ConfidenceOk(sortedMatches[i]) /\ ConfidenceOk(sortedMatches[j])
    /\ Cardinality({allocResult[1].allocations[k].aroll_id :
                        k \in 1..Len(allocResult[1].allocations)}) = 2

\* C2: every allocation, running and returned, has confidence >= MIN_CONFIDENCE.
C2_ConfidenceFloor ==
    /\ \A k \in 1..Len(allocations[1]) : allocations[1][k].confidence >= MIN_CONFIDENCE
    /\ \A k \in 1..Len(allocResult[1].allocations) :
          allocResult[1].allocations[k].confidence >= MIN_CONFIDENCE

\* C2 witness: a finished call whose first match was below the threshold and
\* which still allocated a later match.
C2_Witness ==
    /\ apc[1] = "done"
    /\ Len(sortedMatches) >= 2
    /\ sortedMatches[1].similarity < MIN_CONFIDENCE
    /\ Len(allocResult[1].allocations) >= 1

\* C3: at every point of the sweep and in the result, no A-roll holds more
\* than MAX_INSERTIONS_PER_AROLL allocations.
C3_PerArollCap ==
    \A a \in Arolls :
        /\ CountFor(allocations[1], a) <= MAX_INSERTIONS_PER_AROLL
        /\ CountFor(allocResult[1].allocations, a) <= MAX_INSERTIONS_PER_AROLL

\* C3 witness: the sweep stands before a match that only the cap rejects: its
\* A-roll already holds MAX_INSERTIONS_PER_AROLL allocations.
C3_Witness ==
    /\ apc[1] = "loop"
    /\ idx[1] < Len(sortedMatches)
    /\ LET match == sortedMatches[idx[1] + 1]
       IN /\ CountFor(allocations[1], match.aroll_id) = MAX_INSERTIONS_PER_AROLL
          /\ BrollUnused(match, usedBrolls[1])
          /\ ConfidenceOk(match)
          /\ GapOk(match, arollInsertions[1])
          /\ ~UnderCap(match, arollInsertions[1])

SameArollSpaced(allocs) ==
    \A i, j \in 1..Len(allocs) :
        (i # j /\ allocs[i].aroll_id = allocs[j].aroll_id)
            => Abs(allocs[i].start_sec - allocs[j].start_sec) >= MIN_GAP_SECONDS

\* C4: two distinct allocations on the same A-roll have start_sec values at
\* least MIN_GAP_SECONDS apart, in the running list and in the result.
C4_MinimumSpacing ==
    /\ SameArollSpaced(allocations[1])
    /\ SameArollSpaced(allocResult[1].allocations)

\* C4 witness: a result with two allocations on one A-roll and, on another
\* A-roll, an allocation closer than MIN_GAP_SECONDS to one of them.
C4_Witness ==
    /\ apc[1] = "done"
    /\ LET allocs == allocResult[1].allocations
       IN \E i, j, k \in 1..Len(allocs) :
             /\ i # j
             /\ allocs[i].aroll_id = allocs[j].aroll_id
             /\ allocs[k].aroll_id # allocs[i].aroll_id
             /\ Abs(allocs[k].start_sec - allocs[i].start_sec) < MIN_GAP_SECONDS

\* C6: two calls on the same list agree at every point of their sweeps and in
\* what they return, however their iterations interleave.
C6_Deterministic ==
    \A c, d \in Calls :
        /\ (apc[c] # "idle" /\ apc[d] # "idle" /\ idx[c] = idx[d])
              => /\ allocations[c] = allocations[d]
                 /\ usedBrolls[c] = usedBrolls[d]
                 /\ arollInsertions[c] = arollInsertions[d]
        /\ (apc[c] = "done" /\ apc[d] = "done") => allocResult[c] = allocResult[d]

\* C6 witness: the first call has returned two allocations while the second
\* call is in the middle of its own sweep of the same list.
C6_Witness ==
    /\ apc[1] = "done"
    /\ Len(allocResult[1].allocations) = 2
    /\ apc[2] = "loop"
    /\ idx[2] = 1
    /\ Len(allocations[2]) = 1

ScenarioAFirst == Allocation(ScenarioA[1])

\* C7: Scenario A in the listed order, with min_gap 4 and max 5: b1@2 is
\* accepted, b2@3 fails the gap test only, the second b1 fails the uniqueness
\* test, and the result is exactly [{b1, 2, 0.9}].
C7_ScenarioA ==
    (sortedMatches = ScenarioA /\ MIN_GAP_SECONDS = 4 /\ MAX_INSERTIONS_PER_AROLL = 5
        /\ MIN_CONFIDENCE = 45 /\ apc[1] # "idle")
    => /\ idx[1] >= 1 => allocations[1] = <<ScenarioAFirst>>
       /\ idx[1] = 1 =>
             /\ BrollUnused(ScenarioA[2], usedBrolls[1])
             /\ ConfidenceOk(ScenarioA[2])
             /\ UnderCap(ScenarioA[2], arollInsertions[1])
             /\ ~GapOk(ScenarioA[2], arollInsertions[1])
       /\ idx[1] = 2 => ~BrollUnused(ScenarioA[3], usedBrolls[1])
       /\ apc[1] = "done" =>
             allocResult[1].allocations =
                <<[aroll_id |-> "a1", segment_id |-> "seg_01", start_sec |-> 2,
                   broll_id |-> "b1", confidence |-> 90]>>

\* C7 witness: the call on Scenario A has returned.
C7_Witness ==
    /\ sortedMatches = ScenarioA
    /\ MIN_GAP_SECONDS = 4 /\ MAX_INSERTIONS_PER_AROLL = 5 /\ MIN_CONFIDENCE = 45
    /\ apc[1] = "done"
    /\ Len(allocResult[1].allocations) = 1

(***************************************************************************)
(* Properties of the matching pipeline and the timeline assembler.         *)
(***************************************************************************)
\* C5: every timeline buildTimelineJson returned, and every stored one, has
\* its insertions in non-decreasing start_sec order.
C5_TimelineSorted ==
    /\ \A i \in 1..Len(timelines) : IsSortedByStart(timelines[i].insertions)
    /\ \A a \in DOMAIN timelineStore : IsSortedByStart(timelineStore[a].insertions)

\* C5 witness: the allocations of an A-roll arrived at start_sec 5 and then 1,
\* and its timeline holds them at 1 and then 5.
C5_Witness ==
    /\ \E i \in 1..Len(timelines) :
          /\ Len(timelines[i].insertions) = 2
          /\ timelines[i].insertions[1].start_sec = 1
          /\ timelines[i].insertions[2].start_sec = 5
          /\ \E j, k \in 1..Len(allAllocations) :
                /\ j < k
                /\ allAllocations[j].aroll_id = timelines[i].aroll_id
                /\ allAllocations[k].aroll_id = timelines[i].aroll_id
                /\ allAllocations[j].start_sec = 5
                /\ allAllocations[k].start_sec = 1

\* C8: over all allocations of one runMatchingPipeline run, and so over all
\* the timelines it saves, no broll_id occurs twice.
C8_RunGlobalUniqueness ==
    /\ NoBrollTwice(allAllocations)
    /\ \A i, j \in 1..Len(timelines) :
          i # j => {timelines[i].insertions[k].broll_id : k \in 1..Len(timelines[i].insertions)}
                     \cap {timelines[j].insertions[k].broll_id : k \in 1..Len(timelines[j].insertions)} = {}

\* C9: in every timeline saved by runMatchingPipeline, any two insertions have
\* start_sec values at least MIN_GAP_SECONDS apart.
C9_SavedTimelinesSpaced ==
    \A i \in 1..Len(timelines) :
        \A j, k \in 1..Len(timelines[i].insertions) :
            j # k => Abs(timelines[i].insertions[j].start_sec
                           - timelines[i].insertions[k].start_sec) >= MIN_GAP_SECONDS

(***************************************************************************)
(* Properties of the compositor.                                           *)
(***************************************************************************)
\* C10: when the A-roll file is not on disk, renderVideo has rejected with an
\* error naming the resolved path, has added no input, has built no filter
\* node and has never run the encoder.
C10_MissingArollFailsFirst ==
    (rpc[1] # "idle" /\ Resolve(renderArgs[1].aroll.file_path) \notin disk)
    => /\ rpc[1] = "failed"
       /\ renderOutcome[1] =
             [kind |-> "rejected",
              message |-> "A-roll file not found: " \o Resolve(renderArgs[1].aroll.file_path)]
       /\ commandInputs[1] = <<>>
       /\ validInsertions[1] = <<>>
       /\ complexFilter[1] = <<>>
       /\ outputMaps[1] = <<>>
       /\ processRuns[1] = 0
       /\ ~started[1]

\* C10 witness: a call was made with the A-roll file absent while both B-roll
\* files of a two-insertion timeline were on disk.
C10_Witness ==
    /\ rpc[1] = "failed"
    /\ Resolve(renderArgs[1].aroll.file_path) \notin disk
    /\ Len(renderArgs[1].timeline.insertions) = 2
    /\ \A k \in 1..Len(renderArgs[1].timeline.insertions) :
          /\ renderArgs[1].timeline.insertions[k].broll_id \in DOMAIN renderArgs[1].brollMap
          /\ Resolve(renderArgs[1].brollMap[renderArgs[1].timeline.insertions[k].broll_id].file_path)
                \in disk

\* The k-th smallest member of a set of indices.
NthOf(S, k) == CHOOSE i \in S : Cardinality({j \in S : j < i}) = k - 1

\* The positions of the insertions of call r whose B-roll record is in the
\* asset map and whose file is on disk.
UsablePositions(r) ==
    LET ins == renderArgs[r].timeline.insertions
        map == renderArgs[r].brollMap
    IN {k \in 1..Len(ins) :
          /\ ins[k].broll_id \in DOMAIN map
          /\ Resolve(map[ins[k].broll_id].file_path) \in disk}

\* C11: with the A-roll file present, renderVideo keeps exactly the insertions
\* whose B-roll record is in the asset map and whose file is on disk, in their
\* order, builds one delay and one overlay node per kept insertion, runs the
\* encoder, and fails only if the encoder itself reports an error.
C11_InvalidInsertionsDropped ==
    (rpc[1] # "idle" /\ Resolve(renderArgs[1].aroll.file_path) \in disk)
    => LET ins == renderArgs[1].timeline.insertions
           kept == UsablePositions(1)
       IN /\ Len(validInsertions[1]) = Cardinality(kept)
          /\ \A k \in 1..Len(validInsertions[1]) : validInsertions[1][k] = ins[NthOf(kept, k)]
          /\ Len(commandInputs[1]) = 1 + Cardinality(kept)
          /\ Cardinality({n \in 1..Len(complexFilter[1]) : complexFilter[1][n].kind = "delay"})
                = Cardinality(kept)
          /\ Cardinality({n \in 1..Len(complexFilter[1]) : complexFilter[1][n].kind = "overlay"})
                = Cardinality(kept)
          /\ processRuns[1] = 1
          /\ rpc[1] = "failed" => renderOutcome[1].message = "ffmpeg exited with an error"

\* C11 witness: a render completed for a two-insertion timeline of which one
\* insertion was kept and the other dropped because its B-roll is in the map
\* but its file is not on disk.
C11_Witness ==
    /\ rpc[1] = "completed"
    /\ Len(renderArgs[1].timeline.insertions) = 2
    /\ Len(validInsertions[1]) = 1
    /\ \E k \in 1..2 :
          LET b == renderArgs[1].timeline.insertions[k].broll_id
          IN /\ b \in DOMAIN renderArgs[1].brollMap
             /\ Resolve(renderArgs[1].brollMap[b].file_path) \notin disk

\* The promise of call r is settled in step with the call's state: pending
\* while idle or encoding, resolved with the output path when completed,
\* rejected with an error when failed.
OutcomeMatchesState(r) ==
    /\ rpc[r] \in {"idle", "encoding"} <=> renderOutcome[r] = Pending
    /\ rpc[r] = "completed" <=> renderOutcome[r].kind = "resolved"
    /\ rpc[r] = "completed" => renderOutcome[r].value = outputPath[r]
    /\ rpc[r] = "failed" <=> renderOutcome[r].kind = "rejected"
    /\ rpc[r] = "failed" => Len(renderOutcome[r].message) > 0

\* C12: a renderVideo call ends in exactly one outcome, resolved with the
\* output path or rejected with an error; once settled the outcome never
\* changes; and the encoder is run at most once per call, never again after an
\* outcome.
C12_OneTerminalOutcome ==
    /\ [](OutcomeMatchesState(1) /\ processRuns[1] <= 1)
    /\ [][/\ renderOutcome[1] # Pending => renderOutcome'[1] = renderOutcome[1]
          /\ rpc[1] \in {"completed", "failed"} => (rpc'[1] = rpc[1] /\ processRuns'[1] = processRuns[1])
          /\ processRuns'[1] >= processRuns[1]]_vars

\* C12 witness: the encoder was run once, started, and then reported an error.
C12_Witness ==
    /\ rpc[1] = "failed"
    /\ started[1]
    /\ processRuns[1] = 1
    /\ renderOutcome[1].kind = "rejected"

\* C17: when renderVideo ran the encoder with no usable insertion (an empty
\* timeline, or every insertion dropped), its only input is the A-roll file,
\* its filter graph is the one node that scales input 0's video into "base",
\* and it maps the video "base" and the audio "0:a" of the A-roll.
C17_DegenerateRender ==
    (processRuns[1] = 1 /\ UsablePositions(1) = {})
    => /\ commandInputs[1] = <<Resolve(renderArgs[1].aroll.file_path)>>
       /\ complexFilter[1] = <<[kind |-> "scale", input |-> "0:v", output |-> "base"]>>
       /\ outputMaps[1] = <<"base", "0:a">>

\* C17 witness: a render completed for a two-insertion timeline none of whose
\* insertions was usable.
C17_Witness ==
    /\ rpc[1] = "completed"
    /\ Len(renderArgs[1].timeline.insertions) = 2
    /\ UsablePositions(1) = {}
    /\ validInsertions[1] = <<>>

\* C18: the percents written by the progress handler during one render lie
\* within 0..100 and never decrease.
C18_ProgressBoundedMonotone ==
    /\ \A k \in 1..Len(progressLog[1]) : progressLog[1][k] >= 0 /\ progressLog[1][k] <= 100
    /\ \A j, k \in 1..Len(progressLog[1]) : j < k => progressLog[1][j] <= progressLog[1][k]

(***************************************************************************)
(* Properties of the greedy sweep of allocateBrolls.                       *)
(***************************************************************************)
\* The four tests of a candidate against the running state of call 1, read
\* from the used set and the allocations list.
FourTestsPass(match) ==
    /\ match.broll_id \notin usedBrolls[1]
    /\ match.similarity >= MIN_CONFIDENCE
    /\ CountFor(allocations[1], match.aroll_id) < MAX_INSERTIONS_PER_AROLL
    /\ \A k \in 1..Len(allocations[1]) :
          allocations[1][k].aroll_id = match.aroll_id
             => Abs(match.segment_start - allocations[1][k].start_sec) >= MIN_GAP_SECONDS

\* A step of the sweep of call 1: the loop consumes the next candidate.
SweepStep == apc[1] = "loop" /\ idx'[1] = idx[1] + 1

\* C19: every step of the sweep appends the candidate to the allocations if
\* and only if the four tests pass against the state before the step.
C19_AcceptedIffFourTests ==
    [][SweepStep =>
          LET match == sortedMatches[idx[1] + 1]
          IN /\ FourTestsPass(match) <=> Len(allocations'[1]) = Len(allocations[1]) + 1
             /\ ~FourTestsPass(match) <=> allocations'[1] = allocations[1]
             /\ FourTestsPass(match) =>
                   /\ allocations'[1][Len(allocations'[1])].broll_id = match.broll_id
                   /\ allocations'[1][Len(allocations'[1])].aroll_id = match.aroll_id
                   /\ allocations'[1][Len(allocations'[1])].start_sec = match.segment_start]_vars

\* C19 witness: a finished sweep of three candidates that accepted two and
\* rejected one whose confidence reached the threshold.
C19_Witness ==
    /\ apc[1] = "done"
    /\ Len(sortedMatches) = 3
    /\ Len(allocResult[1].allocations) = 2
    /\ \A i \in 1..3 : sortedMatches[i].similarity >= MIN_CONFIDENCE

\* The allocations of call 1 are those of some candidates among the first n,
\* in the order of the input.
IsSubsequenceOfInput(allocs, n) ==
    \E S \in SUBSET (1..n) :
        /\ Len(allocs) = Cardinality(S)
        /\ \A k \in 1..Len(allocs) :
              LET match == sortedMatches[NthOf(S, k)]
              IN /\ allocs[k].aroll_id = match.aroll_id
                 /\ allocs[k].segment_id = match.segment_id
                 /\ allocs[k].start_sec = match.segment_start
                 /\ allocs[k].broll_id = match.broll_id
                 /\ allocs[k].confidence = match.similarity

\* C20: a step that rejects a candidate leaves the used set, the per-A-roll
\* lists and the allocations as they were; the loop index only moves forward
\* by one, so no candidate is examined twice; the used set and the per-A-roll
\* lists change only in a step that appends an allocation; the call always
\* stands in one of its three positions; and the allocations, running and
\* returned, are a subsequence of the input in input order.
C20_RejectionChangesNothing ==
    /\ [](/\ apc[1] \in {"idle", "loop", "done"}
          /\ IsSubsequenceOfInput(allocations[1], idx[1])
          /\ apc[1] = "done" => /\ allocResult[1].allocations = allocations[1]
                                /\ idx[1] = Len(sortedMatches))
    /\ [][/\ idx'[1] \in {idx[1], idx[1] + 1}
          /\ (SweepStep /\ ~FourTestsPass(sortedMatches[idx[1] + 1]))
                => /\ usedBrolls'[1] = usedBrolls[1]
                   /\ arollInsertions'[1] = arollInsertions[1]
                   /\ allocations'[1] = allocations[1]
          /\ (usedBrolls'[1] # usedBrolls[1] \/ arollInsertions'[1] # arollInsertions[1])
                => Len(allocations'[1]) = Len(allocations[1]) + 1]_vars

\* C20 witness: a finished sweep of three candidates that rejected the second
\* and accepted the first and the third.
C20_Witness ==
    /\ apc[1] = "done"
    /\ Len(sortedMatches) = 3
    /\ allocResult[1].allocations = <<Allocation(sortedMatches[1]), Allocation(sortedMatches[3])>>

(***************************************************************************)
(* Properties of the render requests and their cleanup.                    *)
(***************************************************************************)
\* C13: every request that answered 200 set one timeout of 300000 ms on the
\* path its render resolved with, and none is ever cancelled; the callback
\* runs at most once; a run makes one deletion attempt: it calls unlinkSync
\* once if the file is there and not at all if it is gone, logging nothing in
\* that case; a failing unlinkSync is logged, leaves the answer and the other
\* requests' state alone, and the timeout is not set again.
C13_CleanupOnce ==
    /\ [](\A r \in Renders :
            /\ response[r].status = 200 <=> timer[r].state \in {"pending", "fired"}
            /\ timer[r].state \in {"pending", "fired"}
                  => /\ timer[r].path = renderOutcome[r].value
                     /\ timer[r].delay = 300000
            /\ timer[r].state = "pending"
                  => /\ unlinkCalls[r] = 0
                     /\ cleanupLog[r] = <<>>
                     /\ ENABLED CleanupFire(r)
            /\ unlinkCalls[r] <= 1
            /\ Len(cleanupLog[r]) = unlinkCalls[r])
    /\ [][\A r \in Renders :
            /\ timer[r].state = "fired"
                  => /\ timer'[r] = timer[r]
                     /\ unlinkCalls'[r] = unlinkCalls[r]
                     /\ cleanupLog'[r] = cleanupLog[r]
            /\ (timer[r].state = "pending" /\ timer'[r] # timer[r])
                  => /\ timer'[r] = [timer[r] EXCEPT !.state = "fired"]
                     /\ response' = response
                     /\ hpc' = hpc
                     /\ IF Resolve(timer[r].path) \in disk
                        THEN /\ unlinkCalls'[r] = 1
                             /\ \/ /\ disk' = disk \ {Resolve(timer[r].path)}
                                   /\ cleanupLog'[r] = <<"Cleaned up">>
                                \/ /\ disk' = disk
                                   /\ cleanupLog'[r] = <<"Failed to cleanup">>
                        ELSE /\ unlinkCalls'[r] = 0
                             /\ cleanupLog'[r] = <<>>
                             /\ disk' = disk]_vars

\* C13 witness: both requests succeeded; the timeout of one deleted the file
\* and the timeout of the other, fired later on the same path, found no file
\* and called unlinkSync not at all.
C13_Witness ==
    \E r, q \in Renders :
        /\ r # q
        /\ timer[r].state = "fired" /\ timer[q].state = "fired"
        /\ cleanupLog[r] = <<"Cleaned up">>
        /\ unlinkCalls[q] = 0
        /\ Resolve(timer[q].path) \notin disk

C15_FreshOutputPath ==
    /\ [](\A r, q \in Renders :
            /\ (r # q /\ processRuns[r] = 1 /\ processRuns[q] = 1) => outputPath[r] # outputPath[q]
            /\ rpc[r] # "idle" => Resolve("exports") \in disk)
    /\ [][\A r \in Renders :
            (rpc[r] = "idle" /\ rpc'[r] # "idle") => Resolve(outputPath'[r]) \notin disk]_vars

(***************************************************************************)
(* Properties of saveTimeline.                                             *)
(***************************************************************************)
\* C16: no call of saveTimeline fails; a call that has returned left a
\* timeline stored for its aroll_id; and the timeline stored for an aroll_id
\* is, as a whole, the one stored at the start or the argument of a finished
\* call for that aroll_id.
C16_SaveTimelineUpsert ==
    /\ \A c \in Savers :
          /\ spc[c] # "failed"
          /\ saveResult[c].kind # "rejected"
          /\ spc[c] = "done" => saveArg[c].aroll_id \in DOMAIN timelineStore
    /\ \A a \in DOMAIN timelineStore :
          \/ timelineStore[a] = OldTimeline
          \/ \E c \in Savers : spc[c] = "done" /\ timelineStore[a] = saveArg[c]

(***************************************************************************)
(* Properties of the filter graph.                                         *)
(***************************************************************************)
\* The stream labels a filter node reads.
ReadsOf(node) ==
    IF node.kind = "overlay" THEN {node.main, node.over} ELSE {node.input}

\* How many filter nodes and -map options of call r read the label.
ConsumersOf(r, label) ==
    Cardinality({n \in 1..Len(complexFilter[r]) : label \in ReadsOf(complexFilter[r][n])})
      + Cardinality({m \in 1..Len(outputMaps[r]) : outputMaps[r][m] = label})

\* C21: a render that ran the encoder with n valid insertions has a graph of
\* 1 + 2n nodes: the base node first, then n delay nodes, then n overlay
\* nodes; overlay 0 reads the base and delayed stream 0, overlay k > 0 reads
\* the output of overlay k-1 and delayed stream k; every node's output is read
\* at most once; the mapped video is the last overlay's output and the mapped
\* audio is "0:a".
C21_LinearChain ==
    processRuns[1] = 1
    => LET n == Len(validInsertions[1])
           f == complexFilter[1]
       IN /\ Len(f) = 1 + 2 * n
          /\ f[1].kind = "scale" /\ f[1].input = "0:v" /\ f[1].output = "base"
          /\ \A k \in 1..n : f[1 + k].kind = "delay"
          /\ \A k \in 1..n :
                /\ f[1 + n + k].kind = "overlay"
                /\ f[1 + n + k].main = (IF k = 1 THEN f[1].output ELSE f[n + k].output)
                /\ f[1 + n + k].over = f[1 + k].output
          /\ \A i, j \in 1..Len(f) : i # j => f[i].output # f[j].output
          /\ \A i \in 1..Len(f) : ConsumersOf(1, f[i].output) <= 1
          /\ outputMaps[1] = <<f[Len(f)].output, "0:a">>

\* C21 witness: a render completed with two valid insertions.
C21_Witness ==
    /\ rpc[1] = "completed"
    /\ Len(validInsertions[1]) = 2
    /\ Len(complexFilter[1]) = 5

\* The start_sec by which the delay node writing the label shifts its input.
ShiftOf(r, label) ==
    LET n == CHOOSE i \in 1..Len(complexFilter[r]) :
                 complexFilter[r][i].kind = "delay" /\ complexFilter[r][i].output = label
    IN complexFilter[r][n].shift

\* The overlay nodes of call r, in the order of the chain.
OverlaysOf(r) == SelectSeq(complexFilter[r], LAMBDA node : node.kind = "overlay")

\* C22: for every stored timeline handed to renderVideo, the B-roll streams
\* laid over along the chain of overlay nodes start at ascending start_sec,
\* and they are the surviving insertions of the timeline in its order.
C22_OverlaysAscending ==
    processRuns[1] = 1
    => LET chain == OverlaysOf(1)
       IN /\ Len(chain) = Cardinality(UsablePositions(1))
          /\ \A k \in 1..Len(chain) :
                ShiftOf(1, chain[k].over)
                   = renderArgs[1].timeline.insertions[NthOf(UsablePositions(1), k)].start_sec
          /\ \A j, k \in 1..Len(chain) :
                j < k => ShiftOf(1, chain[j].over) <= ShiftOf(1, chain[k].over)
          /\ \A k \in 2..Len(chain) : chain[k].main = chain[k - 1].output

\* C22 witness: a render completed whose two overlays lay over B-rolls that
\* start at different times.
C22_Witness ==
    /\ rpc[1] = "completed"
    /\ Len(OverlaysOf(1)) = 2
    /\ ShiftOf(1, OverlaysOf(1)[1].over) < ShiftOf(1, OverlaysOf(1)[2].over)

(***************************************************************************)
(* Properties of the render's life cycle.                                  *)
(***************************************************************************)
\* The graph of call r is built: the base node and the nodes of the valid
\* insertions are in complexFilter and the outputs are mapped.
GraphBuilt(r) ==
    /\ Len(complexFilter[r]) = 1 + 2 * Len(validInsertions[r])
    /\ Len(outputMaps[r]) = 2

\* C23: a render moves idle -> encoding -> completed or failed, the graph
\* being built in the step that leaves idle for encoding; the start event is
\* handled only with the graph built and the encoder run; completed is entered
\* only from encoding; failed is entered only from encoding, or from idle when
\* the A-roll file is missing, and then with no graph and no encoder run; no
\* state is entered again once left.
C23_RenderStateMachine ==
    /\ [](/\ rpc[1] \in {"idle", "encoding", "completed", "failed"}
          /\ rpc[1] \in {"encoding", "completed"} => (GraphBuilt(1) /\ processRuns[1] = 1)
          /\ started[1] => (GraphBuilt(1) /\ processRuns[1] = 1 /\ rpc[1] # "idle")
          /\ rpc[1] = "idle" => (complexFilter[1] = <<>> /\ processRuns[1] = 0))
    /\ [][/\ rpc'[1] # rpc[1]
             => \/ rpc[1] = "idle" /\ rpc'[1] = "encoding" /\ GraphBuilt(1)'
                \/ rpc[1] = "encoding" /\ rpc'[1] \in {"completed", "failed"}
                \/ /\ rpc[1] = "idle" /\ rpc'[1] = "failed"
                   /\ Resolve(renderArgs[1].aroll.file_path) \notin disk
                   /\ complexFilter'[1] = <<>>
                   /\ processRuns'[1] = 0
          /\ rpc[1] \in {"completed", "failed"} => rpc'[1] = rpc[1]
          /\ started[1] => started'[1]]_vars

\* C23 witness: the encoder was run and reported an error before any start
\* event was handled.
C23_Witness ==
    /\ rpc[1] = "failed"
    /\ processRuns[1] = 1
    /\ ~started[1]
    /\ GraphBuilt(1)

(***************************************************************************)
(* Properties of buildTimelineJson.                                        *)
(***************************************************************************)
\* How often an insertion with these values occurs in a list of insertions.
InsertionCount(insertions, b, start, duration) ==
    Cardinality({k \in 1..Len(insertions) :
                    /\ insertions[k].broll_id = b
                    /\ insertions[k].start_sec = start
                    /\ insertions[k].duration_sec = duration})

\* The duration C24 asks for: the B-roll's own when the asset map holds the
\* B-roll, the configured default otherwise.
ExpectedDuration(b, map) ==
    IF b \in DOMAIN map THEN map[b].duration_sec ELSE DEFAULT_BROLL_DURATION

\* C24: the timeline buildTimelineJson returns has one insertion per
\* allocation, and the insertion of an allocation carries the duration of its
\* B-roll when the asset map holds that B-roll and the configured default
\* duration when it does not.
C24_InsertionDuration ==
    buildResult # NoTimeline
    => /\ Len(buildResult.insertions) = Len(buildArgs.allocations)
       /\ \A i \in 1..Len(buildArgs.allocations) :
             LET alloc == buildArgs.allocations[i]
                 d == ExpectedDuration(alloc.broll_id, buildArgs.brollMap)
             IN InsertionCount(buildResult.insertions, alloc.broll_id, alloc.start_sec, d)
                   >= Cardinality({j \in 1..Len(buildArgs.allocations) :
                                      buildArgs.allocations[j] = alloc})
       /\ \A k \in 1..Len(buildResult.insertions) :
             buildResult.insertions[k].duration_sec
                = ExpectedDuration(buildResult.insertions[k].broll_id, buildArgs.brollMap)

\* C24 witness: a timeline was built from two allocations, one whose B-roll is
\* in the asset map with a duration other than the default and one whose
\* B-roll is not in the map.
C24_Witness ==
    /\ buildResult # NoTimeline
    /\ Len(buildArgs.allocations) = 2
    /\ \E i, j \in 1..2 :
          /\ buildArgs.allocations[i].broll_id \in DOMAIN buildArgs.brollMap
          /\ buildArgs.brollMap[buildArgs.allocations[i].broll_id].duration_sec # DEFAULT_BROLL_DURATION
          /\ buildArgs.allocations[j].broll_id \notin DOMAIN buildArgs.brollMap

(***************************************************************************)
(* Properties of interleaved renders and cleanups.                         *)
(***************************************************************************)
\* C25: when the timeout of one request deletes a file, that file is not the
\* output file of another render that is still encoding to it, nor of another
\* completed render whose own timeout has not fired yet.
C25_CleanupOwnArtifactOnly ==
    [][\A r, q \in Renders :
          (/\ r # q
           /\ timer[r].state = "pending" /\ timer'[r].state = "fired"
           /\ Resolve(timer[r].path) \in disk \ disk')
          => ~(/\ outputPath[q] = timer[r].path
               /\ \/ rpc[q] = "encoding"
                  \/ rpc[q] = "completed" /\ timer[q].state # "fired")]_vars

(***************************************************************************)
(* Maximality of the returned Allocation Set.                              *)
(***************************************************************************)
\* The candidate, added to the returned allocations, would break one of the
\* four constraints.
WouldViolate(match, final) ==
    \/ \E k \in DOMAIN final : final[k].broll_id = match.broll_id
    \/ match.similarity < MIN_CONFIDENCE
    \/ Cardinality({k \in DOMAIN final : final[k].aroll_id = match.aroll_id})
          >= MAX_INSERTIONS_PER_AROLL
    \/ \E k \in DOMAIN final :
          /\ final[k].aroll_id = match.aroll_id
          /\ Abs(match.segment_start - final[k].start_sec) < MIN_GAP_SECONDS

\* C26: once allocateBrolls has returned, every input candidate that is not
\* among the returned allocations would violate at least one of the four
\* constraints if it were added to the returned set.
C26_ReturnedSetMaximal ==
    apc[1] = "done" =>
        \A i \in DOMAIN sortedMatches :
            (\A k \in DOMAIN allocResult[1].allocations :
                  allocResult[1].allocations[k] # Allocation(sortedMatches[i]))
            => WouldViolate(sortedMatches[i], allocResult[1].allocations)

\* C26 witness: a returned set that left out a candidate whose confidence
\* reached the threshold and whose A-roll was under its cap, so that only
\* the reuse of a B-roll or the spacing excludes it.
C26_Witness ==
    /\ apc[1] = "done"
    /\ allocResult[1].allocations # <<>>
    /\ \E i \in DOMAIN sortedMatches :
          /\ \A k \in DOMAIN allocResult[1].allocations :
                allocResult[1].allocations[k] # Allocation(sortedMatches[i])
          /\ sortedMatches[i].similarity >= MIN_CONFIDENCE
          /\ Cardinality({k \in DOMAIN allocResult[1].allocations :
                allocResult[1].allocations[k].aroll_id = sortedMatches[i].aroll_id})
                < MAX_INSERTIONS_PER_AROLL

(***************************************************************************)
(* Alignment of encoder inputs, delay nodes and start times.               *)
(***************************************************************************)
\* C27: in a render that ran the encoder, for every k the k-th delay node
\* reads the encoder input that holds the file of the B-roll of the k-th
\* surviving insertion of the timeline, shifts it by that insertion's
\* start_sec, and feeds the k-th overlay node, whichever insertions were
\* skipped.
C27_DelayNodesAligned ==
    processRuns[1] = 1
    => LET ins == renderArgs[1].timeline.insertions
           map == renderArgs[1].brollMap
           kept == UsablePositions(1)
           n == Cardinality(kept)
           f == complexFilter[1]
       IN /\ Len(f) = 1 + 2 * n
          /\ Len(commandInputs[1]) = 1 + n
          /\ \A k \in 1..n :
                LET survivor == ins[NthOf(kept, k)]
                IN /\ f[1 + k].kind = "delay"
                   /\ \E j \in 1..n :
                         /\ f[1 + k].input = ToString(j) \o ":v"
                         /\ commandInputs[1][j + 1] = Resolve(map[survivor.broll_id].file_path)
                   /\ f[1 + k].shift = survivor.start_sec
                   /\ f[1 + n + k].over = f[1 + k].output

\* C27 witness: the encoder ran for a two-insertion timeline whose first
\* insertion was skipped and whose second survived, so that the survivor's
\* position in the timeline differs from its position among the inputs.
C27_Witness ==
    /\ processRuns[1] = 1
    /\ Len(renderArgs[1].timeline.insertions) = 2
    /\ UsablePositions(1) = {2}
    /\ Len(complexFilter[1]) = 3
    /\ complexFilter[1][2].input = "1:v"

(***************************************************************************)
(* Failed matching and the stored Timeline.                                *)
(***************************************************************************)
\* C28: an iteration of runMatchingPipeline whose chat completion threw or
\* was not parsable JSON leaves the Timeline stored for that A-roll, if there
\* is one, as it was.
C28_FailedMatchKeepsTimeline ==
    [][(/\ ppc = "loop"
        /\ pIdx' = pIdx + 1
        /\ llmOutcomes'[Len(llmOutcomes')] # "json"
        /\ arollDb[pIdx + 1] \in DOMAIN timelineStore)
       => /\ arollDb[pIdx + 1] \in DOMAIN timelineStore'
          /\ timelineStore'[arollDb[pIdx + 1]] = timelineStore[arollDb[pIdx + 1]]]_vars

(***************************************************************************)
(* Consumption of B-rolls inside matchAndAllocate.                         *)
(***************************************************************************)
\* The suggestion names a segment and a B-roll that exist and passes the
\* confidence and the reason filter.
AcceptableAlone(alloc, segments, brolls) ==
    /\ \E i \in 1..Len(segments) : segments[i].segment_id = alloc.segment_id
    /\ \E i \in 1..Len(brolls) : brolls[i].broll_id = alloc.broll_id
    /\ ConfidenceOf(alloc) >= MIN_CONFIDENCE
    /\ Len(ReasonOf(alloc)) >= 10

\* C29: when matchAndAllocate has returned for a parsed completion, every
\* B-roll named by a suggestion that exists and passes the confidence and
\* reason filters is in the returned allocations: only a returned allocation
\* can have consumed it, never an earlier suggestion that was filtered out.
C29_OnlyReturnedConsume ==
    (matchResult # NoMatchResult /\ matchArgs.completion.kind = "json"
        /\ "allocations" \in DOMAIN matchArgs.completion)
    => \A j \in 1..Len(matchArgs.completion.allocations) :
          AcceptableAlone(matchArgs.completion.allocations[j], matchArgs.segments, matchArgs.brolls)
          => \E k \in 1..Len(matchResult.allocations) :
                matchResult.allocations[k].broll_id = matchArgs.completion.allocations[j].broll_id

(***************************************************************************)
(* A render and the stored Timeline changing under it.                     *)
(***************************************************************************)
\* The filter graph and the inputs of render r.
GraphOf(r) == <<commandInputs[r], validInsertions[r], complexFilter[r], outputMaps[r]>>

\* C30: the timeline handed to renderVideo by a request is the one version
\* the request read from the store; the insertions kept and the shifts of the
\* delay nodes all belong to that version; the request reads the store once,
\* in its getTimeline step; and once renderVideo has been called, no step,
\* whether it replaces or deletes the stored Timeline, changes the render's
\* arguments, its inputs or its graph.
C30_SingleVersionRendered ==
    /\ [](\A r \in Renders :
            renderArgs[r] # NoArgs
            => /\ renderArgs[r].timeline = hTimeline[r]
               /\ \A k \in 1..Len(validInsertions[r]) :
                     \E i \in 1..Len(hTimeline[r].insertions) :
                        validInsertions[r][k] = hTimeline[r].insertions[i]
               /\ \A n \in 1..Len(complexFilter[r]) :
                     complexFilter[r][n].kind = "delay"
                     => \E i \in 1..Len(hTimeline[r].insertions) :
                           complexFilter[r][n].shift = hTimeline[r].insertions[i].start_sec)
    /\ [][\A r \in Renders :
            /\ hTimeline'[r] # hTimeline[r]
               => /\ hpc[r] = "timeline"
                  /\ reqBody[r].aroll_id \in DOMAIN timelineStore
                  /\ hTimeline'[r] = timelineStore[reqBody[r].aroll_id]
            /\ renderArgs[r] # NoArgs => renderArgs'[r] = renderArgs[r]
            /\ rpc[r] # "idle" => GraphOf(r)' = GraphOf(r)]_vars

\* C30 witness: two renders are encoding at once, one from the version that
\* was stored when its request began and has since been replaced, the other
\* from the version now stored, each with its own version's insertion.
C30_Witness ==
    \E r, q \in Renders :
        /\ r # q
        /\ rpc[r] = "encoding" /\ rpc[q] = "encoding"
        /\ "a1" \in DOMAIN timelineStore
        /\ timelineStore["a1"] # ServedTimeline
        /\ hTimeline[r] = ServedTimeline
        /\ hTimeline[q] = timelineStore["a1"]
        /\ validInsertions[r] = <<StoredInsertion("b1", 2)>>
        /\ validInsertions[q] = <<StoredInsertion("b2", 3)>>

====
